---------------------------- MODULE Spec2Model ----------------------------
(***************************************************************************)
(* Flashcard scheduling and deduplication engine of lang-agent:            *)
(* FlashcardService (services/flashcards.py) over FlashcardRepository and  *)
(* UserRepository (services/storage/repositories.py) and the tables of     *)
(* services/storage/models.py.                                             *)
(*                                                                         *)
(* Texts are sequences of one-character strings, so that strip, casefold   *)
(* and normalize_text are computed and not assumed.  Times are minutes on  *)
(* an integer clock.  A table is a function from primary key to row; a row *)
(* carries tx, the transaction that inserted it and has not yet committed  *)
(* (0 once committed).                                                     *)
(***************************************************************************)
EXTENDS Integers, Sequences, FiniteSets, TLC

VARIABLES
    now,         \* the wall clock read by dt.datetime.now, in minutes
    users,       \* table users:      id -> row
    decks,       \* table decks:      id -> row
    cards,       \* table cards:      id -> row
    user_cards,  \* table user_cards: id -> row
    nextId,      \* the autoincrement counters of decks, cards and user_cards
    pc,          \* per request slot: where its running service call stands
    call,        \* per request slot: arguments and locals of the running call
    ret,         \* per request slot: what the finished call returned or raised
    trail        \* history: the reviews recorded on one assignment, or the
                 \* words for which returned add_words calls created cards

vars == <<now, users, decks, cards, user_cards, nextId, pc, call, ret, trail>>
db   == <<users, decks, cards, user_cards, nextId>>

---------------------------------------------------------------------------
(* Bounds of the model.                                                    *)

MaxCards     == 2    \* rows the cards table may ever receive
MaxUserCards == 2    \* rows the user_cards table may ever receive
MaxDecks     == 2    \* rows the decks table may ever receive
MaxReviews   == 2    \* reviews recorded, over all assignments
MaxTicks     == 1    \* clock advances
MaxEffort    == 8    \* rows inserted, reviews recorded and clock advances
MaxTrail     == 4    \* reviews in a recorded review history
MaxInterval  == 2000 \* previous intervals the interval policy is applied to
MaxCount     == 2    \* review counts the interval policy is applied to

Users == {1, 2}
Procs == {1, 2}
None     == 0 - 1      \* Python's None where an id or a time is expected
NoRating == "none"    \* Python's None in the column last_rating

---------------------------------------------------------------------------
(* Texts.                                                                  *)

Max(a, b) == IF a >= b THEN a ELSE b

IsSpace(c) == c = " "

RECURSIVE lstrip(_)
lstrip(t) == IF t # <<>> /\ IsSpace(Head(t)) THEN lstrip(Tail(t)) ELSE t

RECURSIVE rstrip(_)
rstrip(t) ==
    IF t # <<>> /\ IsSpace(t[Len(t)]) THEN rstrip(SubSeq(t, 1, Len(t) - 1)) ELSE t

\* str.strip()
strip(t) == rstrip(lstrip(t))

FoldChar(c) ==
    CASE c = "A" -> "a" [] c = "B" -> "b" [] c = "D" -> "d" [] c = "M" -> "m"
      [] c = "N" -> "n" [] c = "X" -> "x" [] OTHER -> c

\* str.casefold()
casefold(t) == [i \in 1..Len(t) |-> FoldChar(t[i])]

\* FlashcardRepository.normalize_text
normalize_text(text) == casefold(strip(text))

---------------------------------------------------------------------------
(* The interval policy.                                                    *)

AGAIN  == "again"
REVIEW == "review"
EASY   == "easy"
ReviewRating == {AGAIN, REVIEW, EASY}

base_again  == 10
base_review == 12 * 60
base_easy   == 3 * 24 * 60

\* int(n / d) of Python: truncation toward zero.
PyInt(n, d) == IF n >= 0 THEN n \div d ELSE -((-n) \div d)

\* The policy with the growth step of EASY capped at thirty days.
calculate_next_interval_capped(previous_interval, review_count, rating) ==
    IF rating = AGAIN THEN base_again
    ELSE LET previous == Max(previous_interval, base_again) IN
         IF rating = REVIEW
         THEN IF review_count = 0 THEN base_review
              ELSE Max(base_review, PyInt(previous * 15, 10))
         ELSE IF review_count = 0 THEN base_easy
              ELSE Max(base_easy,
                       IF PyInt(previous * 25, 10) > 43200 THEN 43200
                       ELSE PyInt(previous * 25, 10))

\* The policy with REVIEW growing from the raw previous interval and never
\* floored at its base.
calculate_next_interval_nofloor(previous_interval, review_count, rating) ==
    IF rating = AGAIN THEN base_again
    ELSE LET previous == Max(previous_interval, base_again) IN
         IF rating = REVIEW
         THEN IF review_count = 0 THEN base_review
              ELSE PyInt(previous * 15, 10)
         ELSE IF review_count = 0 THEN base_easy
              ELSE Max(base_easy, PyInt(previous * 25, 10))

\* The policy with AGAIN shrinking the previous interval instead of
\* resetting it.
calculate_next_interval_memory(previous_interval, review_count, rating) ==
    IF rating = AGAIN THEN Max(base_again, PyInt(previous_interval, 2))
    ELSE LET previous == Max(previous_interval, base_again) IN
         IF rating = REVIEW
         THEN IF review_count = 0 THEN base_review
              ELSE Max(base_review, PyInt(previous * 15, 10))
         ELSE IF review_count = 0 THEN base_easy
              ELSE Max(base_easy, PyInt(previous * 25, 10))

\* FlashcardService._calculate_next_interval
calculate_next_interval(previous_interval, review_count, rating) ==
    IF rating = AGAIN THEN base_again
    ELSE LET previous == Max(previous_interval, base_again) IN
         IF rating = REVIEW
         THEN IF review_count = 0 THEN base_review
              ELSE Max(base_review, PyInt(previous * 15, 10))
         ELSE IF review_count = 0 THEN base_easy
              ELSE Max(base_easy, PyInt(previous * 25, 10))


---------------------------------------------------------------------------
(* Tables and transactions.                                                *)
(*                                                                         *)
(* A session is a database transaction at READ COMMITTED: its statements   *)
(* see the committed rows and the rows it has itself flushed.  A flushed   *)
(* INSERT whose unique key is held by a committed row fails with           *)
(* IntegrityError; one whose key is held by another transaction's flushed, *)
(* uncommitted row waits for that transaction to end.                      *)

Committed(t)  == {i \in DOMAIN t : t[i].tx = 0}
Visible(t, p) == {i \in DOMAIN t : t[i].tx \in {0, p}}

Insert(t, id, row) == [i \in DOMAIN t \cup {id} |-> IF i = id THEN row ELSE t[i]]
Delete(t, ids)     == [i \in DOMAIN t \ ids |-> t[i]]

\* session.commit(): the rows flushed by p become committed rows.
CommitRows(t, p) ==
    [i \in DOMAIN t |-> IF t[i].tx = p THEN [t[i] EXCEPT !.tx = 0] ELSE t[i]]

\* Rollback (a failed flush, or a session closed without commit).
RollbackRows(t, p) == Delete(t, {i \in DOMAIN t : t[i].tx = p})

\* Result of scalar_one_or_none() over the ids a SELECT matched.
Multiple == 0 - 2
scalar_one_or_none(hits) ==
    IF hits = {} THEN None
    ELSE IF Cardinality(hits) = 1 THEN CHOOSE i \in hits : TRUE
    ELSE Multiple

\* UserRepository.upsert_user: the users table after it.
upsert_user(p, user_id) ==
    IF user_id \in Visible(users, p) THEN users
    ELSE Insert(users, user_id, [active_deck_id |-> None, tx |-> p])

DEFAULT_DECK_SLUG == <<"d", "e", "f">>
DEFAULT_DECK_NAME == <<"D", "e", "f">>

\* FlashcardRepository.ensure_deck with the default slug and name:
\* [decks |-> the table after it, id |-> the deck, next |-> the counter].
ensure_deck(p, owner_id) ==
    LET normalized_slug == casefold(strip(DEFAULT_DECK_SLUG))
        hits == {d \in Visible(decks, p) :
                    /\ decks[d].owner_id = owner_id
                    /\ decks[d].slug = normalized_slug}
        record == scalar_one_or_none(hits)
    IN  IF record # None
        THEN [decks |-> decks, id |-> record, next |-> nextId.decks]
        ELSE [decks |-> Insert(decks, nextId.decks,
                               [owner_id |-> owner_id, slug |-> normalized_slug,
                                name |-> DEFAULT_DECK_NAME, created_at |-> now,
                                tx |-> p]),
              id |-> nextId.decks, next |-> nextId.decks + 1]

\* FlashcardRepository.get_card_by_normalized over the table cs.
get_card_by_normalized(cs, p, normalized_source) ==
    scalar_one_or_none({c \in Visible(cs, p) :
                           cs[c].normalized_source_text = normalized_source})

\* FlashcardRepository.get_card_by_normalized_target over the table cs.
get_card_by_normalized_target(cs, p, normalized_target) ==
    scalar_one_or_none({c \in Visible(cs, p) :
                           cs[c].normalized_target_text = normalized_target})

\* The rows whose unique key normalized_source_text the INSERT collides with.
CardKeyHolders(normalized_source) ==
    {c \in DOMAIN cards : cards[c].normalized_source_text = normalized_source}

\* A cards table without the unique index on normalized_source_text.
UniqueViolation_noindex(p, normalized_source) == FALSE

\* The INSERT of create_card fails on the unique index ix_cards_normalized_source_text.
UniqueViolation(p, normalized_source) ==
    \E c \in CardKeyHolders(normalized_source) : cards[c].tx \in {0, p}

\* The INSERT of create_card waits for another transaction's uncommitted row.
InsertWaits(p, normalized_source) ==
    \E c \in CardKeyHolders(normalized_source) : cards[c].tx \notin {0, p}

\* create_card on a connection in autocommit mode: the row is committed as
\* soon as it is flushed.
create_card_autocommit(p, source_text, target_text) ==
    [source_text            |-> strip(source_text),
     normalized_source_text |-> normalize_text(source_text),
     target_text            |-> strip(target_text),
     normalized_target_text |-> normalize_text(target_text),
     tx                     |-> 0]

\* FlashcardRepository.create_card: the row it flushes.
create_card(p, source_text, target_text) ==
    [source_text            |-> strip(source_text),
     normalized_source_text |-> normalize_text(source_text),
     target_text            |-> strip(target_text),
     normalized_target_text |-> normalize_text(target_text),
     tx                     |-> p]

\* ensure_user_card written as an upsert: an existing record is returned
\* with its schedule started afresh.
ensure_user_card_reset(ucs, new_id, p, user_id, deck_id, card_id) ==
    LET hits == {r \in Visible(ucs, p) :
                    /\ ucs[r].user_id = user_id
                    /\ ucs[r].deck_id = deck_id
                    /\ ucs[r].card_id = card_id}
        existing == scalar_one_or_none(hits)
        fresh == [user_id |-> user_id, deck_id |-> deck_id, card_id |-> card_id,
                  last_rating |-> NoRating, interval_minutes |-> 0,
                  review_count |-> 0, next_review_at |-> now,
                  last_reviewed_at |-> None, created_at |-> now, tx |-> p]
    IN  IF existing # None
        THEN [user_cards |-> [ucs EXCEPT ![existing] =
                                 [fresh EXCEPT !.created_at = ucs[existing].created_at,
                                               !.tx = ucs[existing].tx]],
              id |-> existing, created |-> FALSE, next |-> new_id]
        ELSE [user_cards |-> Insert(ucs, new_id, fresh),
              id |-> new_id, created |-> TRUE, next |-> new_id + 1]

\* FlashcardRepository.ensure_user_card over the table ucs, the next free
\* primary key being new_id:
\* [user_cards |-> the table after it, id |-> the record, created |-> bool].
ensure_user_card(ucs, new_id, p, user_id, deck_id, card_id) ==
    LET hits == {r \in Visible(ucs, p) :
                    /\ ucs[r].user_id = user_id
                    /\ ucs[r].deck_id = deck_id
                    /\ ucs[r].card_id = card_id}
        existing == scalar_one_or_none(hits)
    IN  IF existing # None
        THEN [user_cards |-> ucs, id |-> existing, created |-> FALSE,
              next |-> new_id]
        ELSE [user_cards |->
                 Insert(ucs, new_id,
                        [user_id |-> user_id, deck_id |-> deck_id, card_id |-> card_id,
                         last_rating |-> NoRating, interval_minutes |-> 0,
                         review_count |-> 0, next_review_at |-> now,
                         last_reviewed_at |-> None, created_at |-> now, tx |-> p]),
              id |-> new_id, created |-> TRUE, next |-> new_id + 1]

---------------------------------------------------------------------------
(* Request slots.  A slot runs one service call at a time; pc is "idle",   *)
(* a position inside the call, or "done" while the caller holds ret.       *)

NoCall == [op |-> "none"]
NoRet  == [kind |-> "none"]

Returned(value) == [kind |-> "return", value |-> value]
Raised(error)   == [kind |-> "raise", error |-> error]

Busy(q) == pc[q] \notin {"idle", "done"}

\* The calls that insert rows keyed by their user (users, decks, user_cards).
InsertingOps == {"add_words", "create_card_for_deck", "create_deck"}

\* Two calls that insert rows for the same user are not run concurrently.
UserFree(p, user_id) ==
    \A q \in Procs \ {p} :
        Busy(q) /\ call[q].op \in InsertingOps => call[q].user_id # user_id

\* Rows a running call may still insert into cards (and into user_cards).
Reserved(q) ==
    IF ~Busy(q) THEN 0
    ELSE IF call[q].op = "add_words" THEN Len(call[q].words) - call[q].idx + 1
    ELSE IF call[q].op = "create_card_for_deck" THEN 1
    ELSE 0

RECURSIVE SumReserved(_)
SumReserved(qs) ==
    IF qs = {} THEN 0
    ELSE LET q == CHOOSE x \in qs : TRUE IN Reserved(q) + SumReserved(qs \ {q})

\* The bounded tables have room for the rows a call may insert: new_cards
\* cards and new_links assignments.
HasRoom(p, new_cards, new_links) ==
    /\ nextId.cards - 1 + SumReserved(Procs \ {p}) + new_cards <= MaxCards
    /\ nextId.user_cards - 1 + SumReserved(Procs \ {p}) + new_links <= MaxUserCards

---------------------------------------------------------------------------
(* The content generator (FlashcardGenerator.generate_flashcard): any      *)
(* content, or a failure.  An empty source_text makes the service fall     *)
(* back to the word it was asked for.                                      *)

GenFailed == [failed |-> TRUE]
GenOutputs ==
    {[failed |-> FALSE, source_text |-> <<>>, target_text |-> <<"x">>],
     [failed |-> FALSE, source_text |-> <<"B">>, target_text |-> <<"a", " ">>]}
Generations == GenOutputs \cup {GenFailed}

---------------------------------------------------------------------------
(* FlashcardService.add_words                                              *)

W_a     == <<"a">>
W_A     == <<" ", "A">>
W_b     == <<"b">>
W_blank == <<" ">>

WordLists ==
    {<<>>, <<W_blank>>, <<W_a>>, <<W_A>>, <<W_b>>,
     <<W_a, W_b>>, <<W_blank, W_A>>, <<W_b, W_a>>}

NoError == "ok"

\* cleaned_words with only the empty strings left out: blank words are kept.
CleanWords_keepblank(words) ==
    LET kept == SelectSeq(words, LAMBDA w : w # <<>>)
    IN  [i \in 1..Len(kept) |-> strip(kept[i])]

\* cleaned_words = [word.strip() for word in words if word and word.strip()]
CleanWords(words) ==
    LET kept == SelectSeq(words, LAMBDA w : w # <<>> /\ strip(w) # <<>>)
    IN  [i \in 1..Len(kept) |-> strip(kept[i])]

ErrorOutcome(word, error) ==
    [input_text |-> word, created_card |-> FALSE, linked_to_user |-> FALSE,
     card |-> None, reused_existing_card |-> FALSE, user_card_id |-> None,
     error |-> error]

\* The loop of add_words moves to its next word, or to the commit.
NextWord(c, outcome) ==
    [c EXCEPT !.outcomes = Append(@, outcome), !.idx = @ + 1]
PcAfterWord(c) == IF c.idx + 1 > Len(c.words) THEN "aw_commit" ELSE "aw_lookup"

\* add_words up to the loop: the empty case, upsert_user and ensure_deck.
add_words_begin(p, user_id, words) ==
    /\ pc[p] = "idle"
    /\ UserFree(p, user_id)
    /\ LET cleaned_words == CleanWords(words) IN
       IF cleaned_words = <<>>
       THEN /\ pc' = [pc EXCEPT ![p] = "done"]
            /\ call' = [call EXCEPT ![p] =
                           [op |-> "add_words", user_id |-> user_id,
                            words |-> cleaned_words, gen |-> 0]]
            /\ ret' = [ret EXCEPT ![p] =
                          Returned(<<ErrorOutcome(<<>>, "no words recognised")>>)]
            /\ UNCHANGED <<now, db>>
       ELSE /\ HasRoom(p, Cardinality({i \in 1..Len(cleaned_words) :
                                       get_card_by_normalized(
                                           cards, p, normalize_text(cleaned_words[i]))
                                       = None}),
                       Len(cleaned_words))
            /\ nextId.decks <= MaxDecks
            /\ LET deck == ensure_deck(p, user_id) IN
               /\ users' = upsert_user(p, user_id)
               /\ decks' = deck.decks
               /\ nextId' = [nextId EXCEPT !.decks = deck.next]
               /\ call' = [call EXCEPT ![p] =
                              [op |-> "add_words", user_id |-> user_id,
                               words |-> cleaned_words, idx |-> 1,
                               deck_id |-> deck.id, outcomes |-> <<>>,
                               broken |-> FALSE, gen |-> 0]]
            /\ pc' = [pc EXCEPT ![p] = "aw_lookup"]
            /\ UNCHANGED <<now, cards, user_cards, ret>>

\* One word of the loop: the lookup, and the link when the card exists.
add_words_lookup(p) ==
    /\ pc[p] = "aw_lookup"
    /\ LET c          == call[p]
           word       == c.words[c.idx]
           normalized == normalize_text(word)
           card       == get_card_by_normalized(cards, p, normalized)
       IN
       IF c.broken
       THEN \* the session was rolled back by a failed flush
            /\ call' = [call EXCEPT ![p] =
                           NextWord(c, ErrorOutcome(word, "PendingRollbackError"))]
            /\ pc' = [pc EXCEPT ![p] = PcAfterWord(c)]
            /\ UNCHANGED <<now, db, ret>>
       ELSE IF card = Multiple
       THEN /\ call' = [call EXCEPT ![p] =
                           NextWord(c, ErrorOutcome(word, "MultipleResultsFound"))]
            /\ pc' = [pc EXCEPT ![p] = PcAfterWord(c)]
            /\ UNCHANGED <<now, db, ret>>
       ELSE IF card = None
       THEN /\ pc' = [pc EXCEPT ![p] = "aw_generate"]
            /\ UNCHANGED <<now, db, call, ret>>
       ELSE LET link == ensure_user_card(user_cards, nextId.user_cards, p,
                                         c.user_id, c.deck_id, card)
            IN  /\ user_cards' = link.user_cards
                /\ nextId' = [nextId EXCEPT !.user_cards = link.next]
                /\ call' = [call EXCEPT ![p] =
                               NextWord(c, [input_text |-> word,
                                            created_card |-> FALSE,
                                            linked_to_user |-> link.created,
                                            card |-> card,
                                            reused_existing_card |-> TRUE,
                                            user_card_id |-> link.id,
                                            error |-> NoError])]
                /\ pc' = [pc EXCEPT ![p] = PcAfterWord(c)]
                /\ UNCHANGED <<now, users, decks, cards, ret>>

\* One word of the loop after a missed lookup: generate_flashcard,
\* create_card and ensure_user_card.
add_words_generate(p, generated) ==
    /\ pc[p] = "aw_generate"
    /\ LET c    == call[p]
           word == c.words[c.idx]
           counted == [c EXCEPT !.gen = @ + 1]
       IN
       IF generated.failed
       THEN /\ call' = [call EXCEPT ![p] =
                           NextWord(counted, ErrorOutcome(word, "GenerationFailed"))]
            /\ pc' = [pc EXCEPT ![p] = PcAfterWord(c)]
            /\ UNCHANGED <<now, db, ret>>
       ELSE LET source_text == IF generated.source_text # <<>>
                               THEN generated.source_text ELSE word
                row == create_card(p, source_text, generated.target_text)
            IN
            /\ ~InsertWaits(p, row.normalized_source_text)
            /\ IF UniqueViolation(p, row.normalized_source_text)
               THEN \* IntegrityError in flush: the transaction is rolled back
                    /\ users' = RollbackRows(users, p)
                    /\ decks' = RollbackRows(decks, p)
                    /\ cards' = RollbackRows(cards, p)
                    /\ user_cards' = RollbackRows(user_cards, p)
                    /\ call' = [call EXCEPT ![p] =
                                   [NextWord(counted, ErrorOutcome(word, "IntegrityError"))
                                       EXCEPT !.broken = TRUE]]
                    /\ pc' = [pc EXCEPT ![p] = PcAfterWord(c)]
                    /\ UNCHANGED <<now, nextId, ret>>
               ELSE LET card == nextId.cards
                        link == ensure_user_card(user_cards, nextId.user_cards, p,
                                                 c.user_id, c.deck_id, card)
                    IN  /\ cards' = Insert(cards, card, row)
                        /\ user_cards' = link.user_cards
                        /\ nextId' = [nextId EXCEPT !.cards = card + 1,
                                                    !.user_cards = link.next]
                        /\ call' = [call EXCEPT ![p] =
                                       NextWord(counted,
                                                [input_text |-> word,
                                                 created_card |-> TRUE,
                                                 linked_to_user |-> link.created,
                                                 card |-> card,
                                                 reused_existing_card |-> FALSE,
                                                 user_card_id |-> link.id,
                                                 error |-> NoError])]
                        /\ pc' = [pc EXCEPT ![p] = PcAfterWord(c)]
                        /\ UNCHANGED <<now, users, decks, ret>>

\* session.commit() and the return of add_words.
add_words_commit(p) ==
    /\ pc[p] = "aw_commit"
    /\ pc' = [pc EXCEPT ![p] = "done"]
    /\ IF call[p].broken
       THEN /\ ret' = [ret EXCEPT ![p] = Raised("PendingRollbackError")]
            /\ UNCHANGED <<now, db, call>>
       ELSE /\ users' = CommitRows(users, p)
            /\ decks' = CommitRows(decks, p)
            /\ cards' = CommitRows(cards, p)
            /\ user_cards' = CommitRows(user_cards, p)
            /\ ret' = [ret EXCEPT ![p] = Returned(call[p].outcomes)]
            /\ UNCHANGED <<now, nextId, call>>

\* The caller takes the result; the slot is free again.
Return(p) ==
    /\ pc[p] = "done"
    /\ pc' = [pc EXCEPT ![p] = "idle"]
    /\ call' = [call EXCEPT ![p] = NoCall]
    /\ ret' = [ret EXCEPT ![p] = NoRet]
    /\ UNCHANGED <<now, db>>

\* Time passes between calls: a call is short at the clock's resolution.
TickStep == base_again
Tick ==
    /\ \A q \in Procs : pc[q] = "idle"
    /\ now + TickStep <= MaxTicks * TickStep
    /\ now' = now + TickStep
    /\ UNCHANGED <<db, pc, call, ret>>

---------------------------------------------------------------------------
(* FlashcardService.create_deck                                            *)

IsWordChar(c) == c \notin {" ", "-"}

\* re.sub(r"[^\w]+", "-", t): every run of non-word characters becomes one hyphen.
RECURSIVE SubNonWord(_)
SubNonWord(t) ==
    IF t = <<>> THEN <<>>
    ELSE IF IsWordChar(Head(t)) THEN <<Head(t)>> \o SubNonWord(Tail(t))
    ELSE IF Tail(t) # <<>> /\ ~IsWordChar(Head(Tail(t))) THEN SubNonWord(Tail(t))
    ELSE <<"-">> \o SubNonWord(Tail(t))

\* str.strip("-")
RECURSIVE StripHyphens(_)
StripHyphens(t) ==
    IF t # <<>> /\ Head(t) = "-" THEN StripHyphens(Tail(t))
    ELSE IF t # <<>> /\ t[Len(t)] = "-" THEN StripHyphens(SubSeq(t, 1, Len(t) - 1))
    ELSE t

\* str.lower(): on the letters used here it folds as casefold does.
lower(t) == [i \in 1..Len(t) |-> FoldChar(t[i])]

\* FlashcardRepository._generate_slug
generate_slug(name) ==
    LET cleaned == lower(strip(name))
        slug    == StripHyphens(SubNonWord(cleaned))
    IN  IF slug # <<>> THEN slug ELSE <<"d", "e", "c", "k">>

\* FlashcardRepository._slug_exists
slug_exists(p, owner_id, slug) ==
    scalar_one_or_none({d \in Visible(decks, p) :
                           decks[d].owner_id = owner_id /\ decks[d].slug = slug}) # None

\* The loop of FlashcardRepository._ensure_unique_slug from a given index.
RECURSIVE unique_slug_from(_, _, _, _, _)
unique_slug_from(p, owner_id, slug, candidate, index) ==
    IF slug_exists(p, owner_id, candidate)
    THEN unique_slug_from(p, owner_id, slug,
                          slug \o <<"-", ToString(index + 1)>>, index + 1)
    ELSE candidate

\* _ensure_unique_slug looking for the slug among the decks of all owners.
RECURSIVE unique_slug_global_from(_, _, _, _)
unique_slug_global_from(p, slug, candidate, index) ==
    IF \E d \in Visible(decks, p) : decks[d].slug = candidate
    THEN unique_slug_global_from(p, slug, slug \o <<"-", ToString(index + 1)>>,
                                 index + 1)
    ELSE candidate

ensure_unique_slug_global(p, owner_id, slug) ==
    unique_slug_global_from(p, slug, slug, 1)

\* FlashcardRepository._ensure_unique_slug
ensure_unique_slug(p, owner_id, slug) == unique_slug_from(p, owner_id, slug, slug, 1)

DeckNames == {<<"M", " ", "p">>, <<" ">>}

\* FlashcardService.create_deck, with FlashcardRepository.create_deck.
create_deck(p, user_id, name) ==
    /\ pc[p] = "idle"
    /\ UserFree(p, user_id)
    /\ pc' = [pc EXCEPT ![p] = "done"]
    /\ call' = [call EXCEPT ![p] =
                   [op |-> "create_deck", user_id |-> user_id, name |-> name]]
    /\ IF name = <<>> \/ strip(name) = <<>>
       THEN /\ ret' = [ret EXCEPT ![p] = Raised("ValueError: empty deck name")]
            /\ UNCHANGED <<now, db>>
       ELSE /\ nextId.decks <= MaxDecks
            /\ LET slug == ensure_unique_slug(p, user_id, generate_slug(strip(name)))
                   deck == nextId.decks
               IN  /\ users' = CommitRows(upsert_user(p, user_id), p)
                   /\ decks' = Insert(decks, deck,
                                      [owner_id |-> user_id, slug |-> slug,
                                       name |-> strip(strip(name)),
                                       created_at |-> now, tx |-> 0])
                   /\ nextId' = [nextId EXCEPT !.decks = deck + 1]
                   /\ ret' = [ret EXCEPT ![p] =
                                 Returned([deck_id |-> deck, slug |-> slug,
                                           name |-> strip(strip(name)),
                                           card_count |-> 0, due_count |-> 0])]
                   /\ UNCHANGED <<now, cards, user_cards>>

---------------------------------------------------------------------------
(* FlashcardService.create_card_for_deck                                   *)

DeckIds     == 1..MaxDecks
UserCardIds == 1..MaxUserCards

DeckNotFound == "ValueError: deck not found"

\* get_deck selecting by the id alone, whoever owns the deck.
get_deck_anyowner(p, owner_id, deck_id) ==
    scalar_one_or_none({d \in Visible(decks, p) : d = deck_id})

\* FlashcardRepository.get_deck
get_deck(p, owner_id, deck_id) ==
    scalar_one_or_none({d \in Visible(decks, p) :
                           d = deck_id /\ decks[d].owner_id = owner_id})

CreationResult(word, card, reused_existing, link) ==
    [input_text |-> word, created_card |-> ~reused_existing,
     linked_to_user |-> link.created, card |-> card,
     reused_existing_card |-> reused_existing, user_card_id |-> link.id,
     error |-> NoError]

\* create_card_for_deck up to the generator: the deck check and both lookups.
create_card_for_deck_begin(p, user_id, deck_id, prompt_text) ==
    /\ pc[p] = "idle"
    /\ UserFree(p, user_id)
    /\ HasRoom(p, IF get_card_by_normalized(
                          cards, p, normalize_text(strip(prompt_text))) = None
                      /\ get_card_by_normalized_target(
                             cards, p, normalize_text(strip(prompt_text))) = None
                   THEN 1 ELSE 0,
                   IF get_card_by_normalized(
                          cards, p, normalize_text(strip(prompt_text))) = None
                      /\ get_card_by_normalized_target(
                             cards, p, normalize_text(strip(prompt_text))) = Multiple
                   THEN 0 ELSE 1)
    /\ LET cleaned == strip(prompt_text)
           started == [op |-> "create_card_for_deck", user_id |-> user_id,
                       deck_id |-> deck_id, prompt_text |-> cleaned, gen |-> 0]
           deck    == get_deck(p, user_id, deck_id)
           normalized_prompt == normalize_text(cleaned)
           by_source == get_card_by_normalized(cards, p, normalized_prompt)
           by_target == IF by_source = None
                        THEN get_card_by_normalized_target(cards, p, normalized_prompt)
                        ELSE by_source
       IN
       /\ call' = [call EXCEPT ![p] = started]
       /\ IF cleaned = <<>>
          THEN /\ ret' = [ret EXCEPT ![p] = Raised("ValueError: empty card text")]
               /\ pc' = [pc EXCEPT ![p] = "done"]
               /\ UNCHANGED <<now, db>>
          ELSE IF deck = None
          THEN \* the session is closed without commit
               /\ ret' = [ret EXCEPT ![p] = Raised(DeckNotFound)]
               /\ pc' = [pc EXCEPT ![p] = "done"]
               /\ UNCHANGED <<now, db>>
          ELSE IF by_source = Multiple \/ by_target = Multiple
          THEN /\ ret' = [ret EXCEPT ![p] = Raised("MultipleResultsFound")]
               /\ pc' = [pc EXCEPT ![p] = "done"]
               /\ UNCHANGED <<now, db>>
          ELSE IF by_target = None
          THEN /\ users' = upsert_user(p, user_id)
               /\ pc' = [pc EXCEPT ![p] = "cc_generate"]
               /\ UNCHANGED <<now, decks, cards, user_cards, nextId, ret>>
          ELSE LET link == ensure_user_card(user_cards, nextId.user_cards, p,
                                            user_id, deck, by_target)
               IN  /\ users' = CommitRows(upsert_user(p, user_id), p)
                   /\ user_cards' = CommitRows(link.user_cards, p)
                   /\ nextId' = [nextId EXCEPT !.user_cards = link.next]
                   /\ ret' = [ret EXCEPT ![p] =
                                 Returned(CreationResult(cleaned, by_target, TRUE, link))]
                   /\ pc' = [pc EXCEPT ![p] = "done"]
                   /\ UNCHANGED <<now, decks, cards>>

\* create_card_for_deck after both lookups missed: generate_flashcard,
\* create_card, ensure_user_card and the commit.
create_card_for_deck_generate(p, generated) ==
    /\ pc[p] = "cc_generate"
    /\ pc' = [pc EXCEPT ![p] = "done"]
    /\ call' = [call EXCEPT ![p].gen = @ + 1]
    /\ LET c == call[p] IN
       IF generated.failed
       THEN /\ ret' = [ret EXCEPT ![p] = Raised("GenerationFailed")]
            /\ users' = RollbackRows(users, p)
            /\ UNCHANGED <<now, decks, cards, user_cards, nextId>>
       ELSE LET source_text == IF generated.source_text # <<>>
                               THEN generated.source_text ELSE c.prompt_text
                row == create_card(p, source_text, generated.target_text)
            IN
            /\ ~InsertWaits(p, row.normalized_source_text)
            /\ IF UniqueViolation(p, row.normalized_source_text)
               THEN /\ ret' = [ret EXCEPT ![p] = Raised("IntegrityError")]
                    /\ users' = RollbackRows(users, p)
                    /\ UNCHANGED <<now, decks, cards, user_cards, nextId>>
               ELSE LET card == nextId.cards
                        link == ensure_user_card(user_cards, nextId.user_cards, p,
                                                 c.user_id, c.deck_id, card)
                    IN  /\ users' = CommitRows(users, p)
                        /\ cards' = Insert(cards, card, [row EXCEPT !.tx = 0])
                        /\ user_cards' = CommitRows(link.user_cards, p)
                        /\ nextId' = [nextId EXCEPT !.cards = card + 1,
                                                    !.user_cards = link.next]
                        /\ ret' = [ret EXCEPT ![p] =
                                      Returned(CreationResult(c.prompt_text, card,
                                                              FALSE, link))]
                        /\ UNCHANGED <<now, decks>>

---------------------------------------------------------------------------
(* FlashcardService.record_review                                          *)

CardNotFound == "ValueError: card not found for this user"

\* session.get(UserCardRecord, user_card_id)
get_user_card_record(p, user_card_id) ==
    IF user_card_id \in Visible(user_cards, p) THEN user_card_id ELSE None

\* The ownership check shared by get_user_card and record_review:
\* record is None or record.user_id != user_id.
NotOwned(record, user_id) ==
    IF record = None THEN TRUE ELSE user_cards[record].user_id # user_id

\* schedule_review without the increment of review_count.
schedule_review_nocount(record, rating, interval_minutes, reference_time) ==
    LET at == IF reference_time # None THEN reference_time ELSE now
    IN  [record EXCEPT !.last_rating = rating,
                       !.interval_minutes = Max(interval_minutes, 0),
                       !.last_reviewed_at = at,
                       !.next_review_at = at + Max(interval_minutes, 0)]

\* schedule_review that records the review and leaves the due date alone.
schedule_review_unmoved(record, rating, interval_minutes, reference_time) ==
    LET at == IF reference_time # None THEN reference_time ELSE now
    IN  [record EXCEPT !.last_rating = rating,
                       !.interval_minutes = Max(interval_minutes, 0),
                       !.last_reviewed_at = at,
                       !.review_count = @ + 1]

\* FlashcardRepository.schedule_review: the record after the assignments.
schedule_review(record, rating, interval_minutes, reference_time) ==
    LET at == IF reference_time # None THEN reference_time ELSE now
    IN  [record EXCEPT !.last_rating = rating,
                       !.interval_minutes = Max(interval_minutes, 0),
                       !.last_reviewed_at = at,
                       !.next_review_at = at + Max(interval_minutes, 0),
                       !.review_count = @ + 1]

\* The UPDATE a flush emits for a changed record: it sets the columns whose
\* value differs from the value the session loaded, in the row as it is now.
flush_update(row, loaded, changed) ==
    [row EXCEPT
        !.last_rating = IF changed.last_rating # loaded.last_rating
                        THEN changed.last_rating ELSE @,
        !.interval_minutes = IF changed.interval_minutes # loaded.interval_minutes
                             THEN changed.interval_minutes ELSE @,
        !.last_reviewed_at = IF changed.last_reviewed_at # loaded.last_reviewed_at
                             THEN changed.last_reviewed_at ELSE @,
        !.next_review_at = IF changed.next_review_at # loaded.next_review_at
                           THEN changed.next_review_at ELSE @,
        !.review_count = IF changed.review_count # loaded.review_count
                         THEN changed.review_count ELSE @]

\* Reviews recorded so far, over all assignments.
RECURSIVE ReviewsIn(_)
ReviewsIn(ids) ==
    IF ids = {} THEN 0
    ELSE LET r == CHOOSE x \in ids : TRUE
         IN  user_cards[r].review_count + ReviewsIn(ids \ {r})
ReviewsRecorded == ReviewsIn(DOMAIN user_cards)

\* record_review without its ownership check.
record_review_load_unchecked(p, user_id, user_card_id, rating) ==
    /\ pc[p] = "idle"
    /\ call' = [call EXCEPT ![p] =
                   [op |-> "record_review", user_id |-> user_id,
                    user_card_id |-> user_card_id, rating |-> rating,
                    record |-> IF user_card_id \in DOMAIN user_cards
                               THEN user_cards[user_card_id] ELSE NoCall]]
    /\ IF get_user_card_record(p, user_card_id) = None
       THEN /\ ret' = [ret EXCEPT ![p] = Raised(CardNotFound)]
            /\ pc' = [pc EXCEPT ![p] = "done"]
       ELSE /\ pc' = [pc EXCEPT ![p] = "rr_commit"]
            /\ UNCHANGED ret
    /\ UNCHANGED <<now, db>>

\* record_review up to the ownership check.
record_review_load(p, user_id, user_card_id, rating) ==
    /\ pc[p] = "idle"
    /\ LET record == get_user_card_record(p, user_card_id) IN
       /\ call' = [call EXCEPT ![p] =
                      [op |-> "record_review", user_id |-> user_id,
                       user_card_id |-> user_card_id, rating |-> rating,
                       record |-> IF record = None THEN NoCall
                                  ELSE user_cards[record]]]
       /\ IF NotOwned(record, user_id)
          THEN /\ ret' = [ret EXCEPT ![p] = Raised(CardNotFound)]
               /\ pc' = [pc EXCEPT ![p] = "done"]
          ELSE /\ pc' = [pc EXCEPT ![p] = "rr_commit"]
               /\ UNCHANGED ret
    /\ UNCHANGED <<now, db>>

\* record_review whose UPDATE matches every assignment of the learner to
\* the reviewed card instead of the one row.
record_review_commit_bycard(p) ==
    /\ pc[p] = "rr_commit"
    /\ pc' = [pc EXCEPT ![p] = "done"]
    /\ LET c        == call[p]
           record   == c.record
           interval == calculate_next_interval(record.interval_minutes,
                                               record.review_count, c.rating)
           changed  == schedule_review(record, c.rating, interval, None)
       IN  /\ user_cards' =
                 [r \in DOMAIN user_cards |->
                     IF /\ user_cards[r].user_id = record.user_id
                        /\ user_cards[r].card_id = record.card_id
                     THEN flush_update(user_cards[r], record, changed)
                     ELSE user_cards[r]]
           /\ ret' = [ret EXCEPT ![p] = Returned(None)]
    /\ UNCHANGED <<now, users, decks, cards, nextId, call>>

\* record_review from _calculate_next_interval to the commit.
record_review_commit(p) ==
    /\ pc[p] = "rr_commit"
    /\ pc' = [pc EXCEPT ![p] = "done"]
    /\ LET c        == call[p]
           record   == c.record
           interval == calculate_next_interval(record.interval_minutes,
                                               record.review_count, c.rating)
           changed  == schedule_review(record, c.rating, interval, None)
       IN  IF c.user_card_id \notin Committed(user_cards)
           THEN \* the UPDATE matched no row
                /\ ret' = [ret EXCEPT ![p] = Raised("StaleDataError")]
                /\ UNCHANGED user_cards
           ELSE /\ user_cards' = [user_cards EXCEPT ![c.user_card_id] =
                                     flush_update(@, record, changed)]
                /\ ret' = [ret EXCEPT ![p] = Returned(None)]
    /\ UNCHANGED <<now, users, decks, cards, nextId, call>>

---------------------------------------------------------------------------
(* FlashcardService.get_user_card and get_next_card                        *)

\* _to_flashcard_data(record.card), inside a StudyCard.
StudyCard(record) ==
    [user_card_id |-> record,
     deck_id      |-> user_cards[record].deck_id,
     deck_name    |-> decks[user_cards[record].deck_id].name,
     card         |-> [card_id     |-> user_cards[record].card_id,
                       source_text |-> cards[user_cards[record].card_id].source_text,
                       target_text |-> cards[user_cards[record].card_id].target_text]]

\* get_user_card without the comparison of record.user_id.
get_user_card_result_unchecked(p, user_id, user_card_id) ==
    LET record == get_user_card_record(p, user_card_id)
    IN  IF record = None THEN Raised(CardNotFound) ELSE Returned(StudyCard(record))

\* What get_user_card returns or raises.
get_user_card_result(p, user_id, user_card_id) ==
    LET record == get_user_card_record(p, user_card_id)
    IN  IF NotOwned(record, user_id) THEN Raised(CardNotFound)
        ELSE Returned(StudyCard(record))

\* FlashcardService.get_user_card
get_user_card(p, user_id, user_card_id) ==
    /\ pc[p] = "idle"
    /\ pc' = [pc EXCEPT ![p] = "done"]
    /\ call' = [call EXCEPT ![p] =
                   [op |-> "get_user_card", user_id |-> user_id,
                    user_card_id |-> user_card_id]]
    /\ ret' = [ret EXCEPT ![p] = get_user_card_result(p, user_id, user_card_id)]
    /\ UNCHANGED <<now, db>>

\* ORDER BY next_review_at ASC, created_at ASC
OrderedBefore(r, s) ==
    \/ user_cards[r].next_review_at < user_cards[s].next_review_at
    \/ /\ user_cards[r].next_review_at = user_cards[s].next_review_at
       /\ user_cards[r].created_at <= user_cards[s].created_at

\* fetch_next_due_card ordering by creation time alone.
fetch_next_due_card_bycreation(p, user_id, deck_id, as_of) ==
    LET reference == IF as_of # None THEN as_of ELSE now
        matching == {r \in Visible(user_cards, p) :
                        /\ user_cards[r].user_id = user_id
                        /\ user_cards[r].next_review_at <= reference
                        /\ deck_id # None => user_cards[r].deck_id = deck_id}
    IN  {r \in matching :
            \A s \in matching : user_cards[r].created_at <= user_cards[s].created_at}

\* FlashcardRepository.fetch_next_due_card: the rows the statement may
\* return (LIMIT 1 takes the first row of the ordering; rows equal under the
\* ordering come in either order); the empty set stands for None.
fetch_next_due_card(p, user_id, deck_id, as_of) ==
    LET reference == IF as_of # None THEN as_of ELSE now
        matching == {r \in Visible(user_cards, p) :
                        /\ user_cards[r].user_id = user_id
                        /\ user_cards[r].next_review_at <= reference
                        /\ deck_id # None => user_cards[r].deck_id = deck_id}
    IN  {r \in matching : \A s \in matching : OrderedBefore(r, s)}

\* The None that get_next_card returns when nothing is due.
NoStudyCard == [user_card_id |-> None]

\* FlashcardService.get_next_card
get_next_card(p, user_id, deck_id) ==
    /\ pc[p] = "idle"
    /\ pc' = [pc EXCEPT ![p] = "done"]
    /\ call' = [call EXCEPT ![p] =
                   [op |-> "get_next_card", user_id |-> user_id, deck_id |-> deck_id]]
    /\ LET rows == fetch_next_due_card(p, user_id, deck_id, None) IN
       IF rows = {}
       THEN ret' = [ret EXCEPT ![p] = Returned(NoStudyCard)]
       ELSE \E record \in rows : ret' = [ret EXCEPT ![p] = Returned(StudyCard(record))]
    /\ UNCHANGED <<now, db>>

---------------------------------------------------------------------------
Init ==
    /\ now = 0
    /\ users = <<>>
    /\ decks = <<>>
    /\ cards = <<>>
    /\ user_cards = <<>>
    /\ nextId = [decks |-> 1, cards |-> 1, user_cards |-> 1]
    /\ pc = [p \in Procs |-> "idle"]
    /\ call = [p \in Procs |-> NoCall]
    /\ ret = [p \in Procs |-> NoRet]
    /\ trail = <<>>

(* The calls a caller may make, with their arguments drawn from small sets. *)
(* trail is a history variable: only the steps that record into it change  *)
(* it.                                                                     *)

\* What has happened so far: rows inserted, reviews recorded, clock advances.
Effort ==
    (nextId.decks - 1) + (nextId.cards - 1) + (nextId.user_cards - 1)
        + ReviewsRecorded + now \div TickStep

\* Calls that may change rows start, and the clock advances, while fewer
\* than MaxEffort of these have happened.
CreateDeck(p, callers) ==
    \E u \in callers, n \in DeckNames :
        Effort < MaxEffort /\ create_deck(p, u, n) /\ UNCHANGED trail

CreateCardForDeck(p, callers, prompts, generations) ==
    \/ \E u \in callers, d \in DeckIds, w \in prompts :
          /\ Effort < MaxEffort
          /\ create_card_for_deck_begin(p, u, d, w)
          /\ UNCHANGED trail
    \/ \E g \in generations : create_card_for_deck_generate(p, g) /\ UNCHANGED trail

\* Reviews stop once limit of them are recorded.
RecordReview(p, callers, limit) ==
    \/ /\ ReviewsRecorded < limit
       /\ Effort < MaxEffort
       /\ \E u \in callers, r \in UserCardIds, g \in ReviewRating :
             record_review_load(p, u, r, g)
       /\ UNCHANGED trail
    \/ record_review_commit(p) /\ UNCHANGED trail

GetUserCard(p, callers) ==
    \E u \in callers, r \in UserCardIds : get_user_card(p, u, r) /\ UNCHANGED trail

GetNextCard(p, callers) ==
    \E u \in callers, d \in DeckIds \cup {None} :
        get_next_card(p, u, d) /\ UNCHANGED trail

AddWords(p, callers, lists, generations) ==
    \/ \E u \in callers, ws \in lists :
          Effort < MaxEffort /\ add_words_begin(p, u, ws) /\ UNCHANGED trail
    \/ add_words_lookup(p) /\ UNCHANGED trail
    \/ \E g \in generations : add_words_generate(p, g) /\ UNCHANGED trail
    \/ add_words_commit(p) /\ UNCHANGED trail

Returns(p) == Return(p) /\ UNCHANGED trail

Ticks == Effort < MaxEffort /\ Tick /\ UNCHANGED trail

\* A generator that echoes the word it is asked for.
Echo == [failed |-> FALSE, source_text |-> <<>>, target_text |-> <<"x">>]

---------------------------------------------------------------------------
(* One learner builds decks, links cards into them and reviews them, one   *)
(* call at a time.                                                         *)

StudyPrompts == {W_A, W_b, W_blank}

Next ==
    \/ CreateDeck(1, {1})
    \/ CreateCardForDeck(1, {1}, StudyPrompts, {Echo})
    \/ RecordReview(1, {1}, MaxReviews)
    \/ Returns(1)
    \/ Ticks

Spec == Init /\ [][Next]_vars

\* A step of slot 1 inside record_review: the load, or the commit.
ReviewStep ==
    \/ pc[1] = "idle" /\ pc'[1] # "idle" /\ call'[1].op = "record_review"
    \/ pc[1] = "rr_commit"

\* The commit of a review by slot 1 that succeeds.
ReviewCommitted ==
    pc[1] = "rr_commit" /\ pc'[1] = "done" /\ ret'[1] = Returned(None)

(* C4: a successful record_review at time t leaves the assignment with      *)
(* last_rating = the rating, interval_minutes = the scheduler's result for  *)
(* the interval and review_count the row held before the call,              *)
(* last_reviewed_at = t, next_review_at = t + interval_minutes, and         *)
(* review_count one greater than before.                                    *)
C4_ReviewSchedules ==
    [][ReviewCommitted =>
          LET r      == call[1].user_card_id
              before == user_cards[r]
              after  == user_cards'[r]
              t      == now
          IN  /\ before = call[1].record
              /\ after.last_rating = call[1].rating
              /\ after.interval_minutes =
                    calculate_next_interval(before.interval_minutes,
                                            before.review_count, call[1].rating)
              /\ after.last_reviewed_at = t
              /\ after.next_review_at = t + after.interval_minutes
              /\ after.review_count = before.review_count + 1]_vars

\* A second review, made after the clock advanced, has been recorded.
C4_Witness ==
    /\ pc[1] = "done" /\ call[1].op = "record_review" /\ ret[1] = Returned(None)
    /\ LET row == user_cards[call[1].user_card_id]
       IN  /\ row.review_count = 2
           /\ row.last_rating = EASY
           /\ row.interval_minutes = 10800
           /\ row.last_reviewed_at = TickStep
           /\ row.next_review_at = TickStep + 10800

(* C7: record_review changes only the reviewed assignment.  No two rows of  *)
(* user_cards share (user, deck, card), so a card linked into two decks of  *)
(* one learner has two rows; a review of one leaves every other row of      *)
(* user_cards, and the users, decks and cards tables, as they were.         *)
C7_ReviewFrame ==
    [][/\ \A r, s \in DOMAIN user_cards :
             /\ user_cards[r].user_id = user_cards[s].user_id
             /\ user_cards[r].deck_id = user_cards[s].deck_id
             /\ user_cards[r].card_id = user_cards[s].card_id
             => r = s
       /\ ReviewStep =>
             /\ DOMAIN user_cards' = DOMAIN user_cards
             /\ \A s \in DOMAIN user_cards \ {call'[1].user_card_id} :
                   user_cards'[s] = user_cards[s]
             /\ <<users, decks, cards, nextId>>' = <<users, decks, cards, nextId>>]_vars

\* One card sits in two decks of one learner; one row was reviewed and the
\* other has just been reviewed with another rating.
C7_Witness ==
    /\ pc[1] = "done" /\ call[1].op = "record_review" /\ ret[1] = Returned(None)
    /\ \E s \in DOMAIN user_cards :
          LET r == call[1].user_card_id IN
          /\ s # r
          /\ user_cards[s].user_id = user_cards[r].user_id
          /\ user_cards[s].card_id = user_cards[r].card_id
          /\ user_cards[s].deck_id # user_cards[r].deck_id
          /\ user_cards[s].review_count = 1
          /\ user_cards[r].review_count = 1
          /\ user_cards[s].last_rating = EASY
          /\ user_cards[r].last_rating = AGAIN
          /\ user_cards[s].next_review_at # user_cards[r].next_review_at

---------------------------------------------------------------------------
(* Two learners add words to their default decks, look assignments up by   *)
(* id and review them, one call at a time.                                 *)

OwnLists == {<<W_a>>, <<W_b>>}

NextOwn ==
    \/ AddWords(1, Users, OwnLists, {Echo})
    \/ RecordReview(1, Users, MaxReviews)
    \/ GetUserCard(1, Users)
    \/ Returns(1)

SpecOwn == Init /\ [][NextOwn]_vars

\* An id no row of user_cards has or ever had.
MissingId == nextId.user_cards

(* C8: get_user_card(userA, id) for an assignment of another user raises   *)
(* the not-found error, the very outcome it has for an id that does not    *)
(* exist; what it returns is always an assignment of the caller.           *)
C8_ForeignIsMissing ==
    /\ \A u \in Users, r \in DOMAIN user_cards :
          user_cards[r].user_id # u =>
             /\ get_user_card_result(1, u, r) = Raised(CardNotFound)
             /\ get_user_card_result(1, u, r) = get_user_card_result(1, u, MissingId)
    /\ pc[1] = "done" /\ call[1].op = "get_user_card" =>
          /\ ret[1] = get_user_card_result(1, call[1].user_id, call[1].user_card_id)
          /\ ret[1].kind = "return" =>
                /\ ret[1].value.user_card_id = call[1].user_card_id
                /\ user_cards[call[1].user_card_id].user_id = call[1].user_id

\* A learner has asked for the committed assignment of the other learner and
\* was refused.
C8_Witness ==
    /\ pc[1] = "done" /\ call[1].op = "get_user_card"
    /\ call[1].user_card_id \in Committed(user_cards)
    /\ user_cards[call[1].user_card_id].user_id # call[1].user_id
    /\ ret[1] = Raised(CardNotFound)
    /\ \E r \in DOMAIN user_cards : user_cards[r].user_id = call[1].user_id

\* record_review is called by slot 1 with an id that is missing or belongs
\* to another learner.
ReviewRefused ==
    /\ pc[1] = "idle" /\ pc'[1] # "idle" /\ call'[1].op = "record_review"
    /\ \/ call'[1].user_card_id \notin DOMAIN user_cards
       \/ user_cards[call'[1].user_card_id].user_id # call'[1].user_id

(* C9: record_review with an id that is missing or owned by another user    *)
(* raises the not-found error and ends there: no row of any table changes,  *)
(* the targeted assignment included.                                        *)
C9_RefusedReviewMutatesNothing ==
    [][ReviewRefused =>
          /\ pc'[1] = "done"
          /\ ret'[1] = Raised(CardNotFound)
          /\ db' = db]_vars

\* A learner's review of the other learner's assignment, itself reviewed
\* once before, was refused.
C9_Witness ==
    /\ pc[1] = "done" /\ call[1].op = "record_review"
    /\ ret[1] = Raised(CardNotFound)
    /\ call[1].user_card_id \in Committed(user_cards)
    /\ user_cards[call[1].user_card_id].user_id # call[1].user_id
    /\ user_cards[call[1].user_card_id].review_count = 1
    /\ call[1].rating # user_cards[call[1].user_card_id].last_rating

---------------------------------------------------------------------------
(* Two learners build decks, link one card into them and ask for the next  *)
(* due card, and the first of them reviews, one call at a time.            *)

NextDue ==
    \/ CreateDeck(1, Users)
    \/ CreateCardForDeck(1, Users, {W_A}, {Echo})
    \/ RecordReview(1, {1}, MaxReviews)
    \/ GetNextCard(1, Users)
    \/ Returns(1)
    \/ Ticks

SpecDue == Init /\ [][NextDue]_vars

\* The assignments of user_id (in deck_id, if one is given) due at reference.
DueRows(user_id, deck_id, reference) ==
    {r \in DOMAIN user_cards :
        /\ user_cards[r].user_id = user_id
        /\ deck_id # None => user_cards[r].deck_id = deck_id
        /\ user_cards[r].next_review_at <= reference}

\* r is first among rows: the smallest next_review_at, then the earliest
\* created_at.
FirstDue(r, rows) ==
    /\ r \in rows
    /\ \A s \in rows :
          /\ user_cards[r].next_review_at <= user_cards[s].next_review_at
          /\ user_cards[r].next_review_at = user_cards[s].next_review_at
             => user_cards[r].created_at <= user_cards[s].created_at

AsOfTimes == {None} \cup {k * TickStep : k \in 0..MaxTicks}

---------------------------------------------------------------------------
(* The interval policy on its own: every previous interval, review count   *)
(* and rating within the bounds, and the call that computes the interval.  *)

InitInterval ==
    /\ now = 0
    /\ users = <<>>
    /\ decks = <<>>
    /\ cards = <<>>
    /\ user_cards = <<>>
    /\ nextId = [decks |-> 1, cards |-> 1, user_cards |-> 1]
    /\ pc = [p \in Procs |-> "idle"]
    /\ \E previous_interval \in 0..MaxInterval, review_count \in 0..MaxCount,
          rating \in ReviewRating :
          call = [p \in Procs |->
                     IF p = 1
                     THEN [op |-> "calculate_next_interval",
                           previous_interval |-> previous_interval,
                           review_count |-> review_count, rating |-> rating]
                     ELSE NoCall]
    /\ ret = [p \in Procs |-> NoRet]
    /\ trail = <<>>

calculate_next_interval_call(p) ==
    /\ pc[p] = "idle"
    /\ call[p].op = "calculate_next_interval"
    /\ pc' = [pc EXCEPT ![p] = "done"]
    /\ ret' = [ret EXCEPT ![p] =
                  Returned(calculate_next_interval(call[p].previous_interval,
                                                   call[p].review_count,
                                                   call[p].rating))]
    /\ UNCHANGED <<now, db, call, trail>>

NextInterval == calculate_next_interval_call(1)

SpecInterval == InitInterval /\ [][NextInterval]_vars

\* The base interval of a rating.
BaseInterval(rating) ==
    IF rating = AGAIN THEN 10 ELSE IF rating = REVIEW THEN 720 ELSE 4320

\* floor(n * tenths / 10) for n >= 0.
FloorTimes(n, tenths) == (n * tenths) \div 10

\* The reference policy.
ReferencePolicy(prev, count, rating) ==
    IF rating = AGAIN THEN 10
    ELSE IF rating = REVIEW
    THEN IF count = 0 THEN 720 ELSE Max(720, FloorTimes(Max(prev, 10), 15))
    ELSE IF count = 0 THEN 4320 ELSE Max(4320, FloorTimes(Max(prev, 10), 25))

(* C3: _calculate_next_interval(prev, count, rating) equals the reference   *)
(* policy for every prev >= 0, count >= 0 and rating, and is never below    *)
(* the base interval of the rating.                                         *)
C3_IntervalPolicy ==
    pc[1] = "done" /\ call[1].op = "calculate_next_interval" =>
        /\ ret[1].kind = "return"
        /\ ret[1].value = ReferencePolicy(call[1].previous_interval,
                                          call[1].review_count, call[1].rating)
        /\ ret[1].value >= BaseInterval(call[1].rating)

\* An EASY review of an interval whose growth step is truncated and exceeds
\* the base.
C3_Witness ==
    /\ pc[1] = "done" /\ call[1].op = "calculate_next_interval"
    /\ call[1].rating = EASY /\ call[1].review_count = 1
    /\ call[1].previous_interval = 1729
    /\ ret[1] = Returned(4322)

---------------------------------------------------------------------------
(* One learner adds a word and reviews the assignment again and again;     *)
(* trail records the rating and the resulting interval of each review.     *)

ReviewChain(p) ==
    \/ /\ Len(trail) < MaxTrail
       /\ \E r \in UserCardIds, g \in ReviewRating : record_review_load(p, 1, r, g)
       /\ UNCHANGED trail
    \/ /\ record_review_commit(p)
       /\ trail' = IF ret'[p] = Returned(None)
                   THEN Append(trail,
                               [rating |-> call[p].rating,
                                interval_minutes |->
                                    user_cards'[call[p].user_card_id].interval_minutes])
                   ELSE trail

NextSchedule ==
    \/ AddWords(1, {1}, {<<W_a>>}, {Echo})
    \/ ReviewChain(1)
    \/ Returns(1)

SpecSchedule == Init /\ [][NextSchedule]_vars

\* Every review recorded so far had this rating.
OnlyRated(rating) == \A i \in 1..Len(trail) : trail[i].rating = rating

\* The recorded intervals start at first and each later one is at least the
\* one before it and at least floor(tenths / 10 * the one before it).
GrowsFrom(first, tenths) ==
    /\ trail # <<>> => trail[1].interval_minutes = first
    /\ \A i \in 2..Len(trail) :
          /\ trail[i].interval_minutes >= trail[i - 1].interval_minutes
          /\ trail[i].interval_minutes >=
                FloorTimes(trail[i - 1].interval_minutes, tenths)

(* C5: reviewed from review_count = 0 with EASY only, an assignment's       *)
(* intervals start at 4320, never decrease and each is at least             *)
(* floor(2.5 * the one before), without a cap; with REVIEW only they start  *)
(* at 720 and each is at least floor(1.5 * the one before).                 *)
C5_OnlyEasyOnlyReview ==
    /\ OnlyRated(EASY) => GrowsFrom(4320, 25)
    /\ OnlyRated(REVIEW) => GrowsFrom(720, 15)

\* Four EASY reviews in a row: 4320, 10800, 27000, 67500 minutes.
C5_Witness ==
    /\ Len(trail) = 4
    /\ OnlyRated(EASY)
    /\ trail[4].interval_minutes = 67500
    /\ user_cards[1].interval_minutes = 67500
    /\ user_cards[1].review_count = 4

(* C6: a review rated AGAIN sets the interval to exactly 10 whatever the    *)
(* history, and the review right after an AGAIN yields the base interval    *)
(* of its own rating.                                                       *)
C6_AgainResets ==
    \A i \in 1..Len(trail) :
        trail[i].rating = AGAIN =>
            /\ trail[i].interval_minutes = 10
            /\ i < Len(trail) =>
                  trail[i + 1].interval_minutes = BaseInterval(trail[i + 1].rating)

\* EASY, EASY, AGAIN, EASY: the interval grown to 10800 is forgotten.
C6_Witness ==
    /\ Len(trail) = 4
    /\ trail[2] = [rating |-> EASY, interval_minutes |-> 10800]
    /\ trail[3] = [rating |-> AGAIN, interval_minutes |-> 10]
    /\ trail[4] = [rating |-> EASY, interval_minutes |-> 4320]

---------------------------------------------------------------------------
(* Learners add words, one call at a time, with a generator that may       *)
(* return any content or fail; trail records the normalized words for      *)
(* which a returned add_words call created a card.                         *)

RECURSIVE CreatedWords(_, _)
CreatedWords(outcomes, known) ==
    IF outcomes = <<>> THEN known
    ELSE LET word == normalize_text(Head(outcomes).input_text)
             seen == \E i \in 1..Len(known) : known[i] = word
         IN  CreatedWords(Tail(outcomes),
                          IF Head(outcomes).created_card /\ ~seen
                          THEN Append(known, word) ELSE known)

ReturnsRecorded(p) ==
    /\ Return(p)
    /\ trail' = IF call[p].op = "add_words" /\ ret[p].kind = "return"
                THEN CreatedWords(ret[p].value, trail)
                ELSE trail

NextDedup ==
    \/ AddWords(1, Users, WordLists, Generations)
    \/ ReturnsRecorded(1)

SpecDedup == Init /\ [][NextDedup]_vars

\* An earlier add_words call created a card for a word that normalizes as
\* word does.
CreatedBefore(word) ==
    \E i \in 1..Len(trail) : trail[i] = normalize_text(word)

(* C2: once an add for w1 has created a card, a later add_words call for a  *)
(* w2 with normalize(w2) = normalize(w1), whatever the generator returns,   *)
(* does not invoke the generator for it, creates no card and reports        *)
(* created_card = false and reused_existing_card = true.                    *)
C2_LaterAddReuses ==
    /\ pc[1] = "aw_generate" => ~CreatedBefore(call[1].words[call[1].idx])
    /\ pc[1] = "done" /\ call[1].op = "add_words" /\ ret[1].kind = "return" =>
          \A i \in 1..Len(ret[1].value) :
              CreatedBefore(ret[1].value[i].input_text) =>
                  /\ ~ret[1].value[i].created_card
                  /\ ret[1].value[i].reused_existing_card

---------------------------------------------------------------------------
(* Two request slots run add_words and create_card_for_deck at the same    *)
(* time, their steps interleaved, with a generator that echoes the word or *)
(* returns a translation of it.                                            *)

Translated == [failed |-> FALSE, source_text |-> <<"B">>, target_text |-> <<"a", " ">>]

ConcLists == {<<W_a>>, <<W_b, W_A>>}

NextConc ==
    \E p \in Procs :
        \/ AddWords(p, Users, ConcLists, {Echo, Translated})
        \/ CreateCardForDeck(p, Users, {W_A, W_b}, {Echo, Translated})
        \/ Returns(p)

SpecConc == Init /\ [][NextConc]_vars

(* C1: in every reachable state, whatever the sequence or interleaving of   *)
(* add_words and create_card_for_deck calls, no two rows of cards have the  *)
(* same normalized_source_text.                                             *)
C1_UniqueNormalizedSource ==
    \A c, d \in DOMAIN cards :
        cards[c].normalized_source_text = cards[d].normalized_source_text => c = d

\* Two calls missed the same lookup at the same time; one created the card
\* and committed, the other's INSERT was rejected.
C1_Witness ==
    \E p, q \in Procs :
        /\ p # q
        /\ pc[p] = "done" /\ call[p].op = "add_words" /\ ret[p].kind = "return"
        /\ ret[p].value[1].created_card
        /\ call[q].op = "add_words" /\ call[q].broken
        /\ call[q].outcomes[1].error = "IntegrityError"
        /\ normalize_text(call[q].outcomes[1].input_text) =
              cards[ret[p].value[1].card].normalized_source_text

---------------------------------------------------------------------------
(* A learner with three assignments that came due one after the other:     *)
(* the state after add_words(["a"]) at 0, create_deck("M p"),              *)
(* create_card_for_deck(deck 2, " A") at TickStep and add_words(["b"]) at  *)
(* 2 * TickStep.  The learner asks for the next card and reviews.          *)

QueueCard(source_text) ==
    [create_card(0, source_text, Echo.target_text) EXCEPT !.tx = 0]

QueueLink(deck_id, card_id, at) ==
    [user_id |-> 1, deck_id |-> deck_id, card_id |-> card_id,
     last_rating |-> NoRating, interval_minutes |-> 0, review_count |-> 0,
     next_review_at |-> at, last_reviewed_at |-> None, created_at |-> at,
     tx |-> 0]

InitQueue ==
    /\ now = 2 * TickStep
    /\ users = Insert(<<>>, 1, [active_deck_id |-> None, tx |-> 0])
    /\ decks = <<[owner_id |-> 1, slug |-> casefold(strip(DEFAULT_DECK_SLUG)),
                  name |-> DEFAULT_DECK_NAME, created_at |-> 0, tx |-> 0],
                 [owner_id |-> 1, slug |-> generate_slug(<<"M", " ", "p">>),
                  name |-> <<"M", " ", "p">>, created_at |-> 0, tx |-> 0]>>
    /\ cards = <<QueueCard(W_a), QueueCard(W_b)>>
    /\ user_cards = <<QueueLink(1, 1, 0), QueueLink(2, 1, TickStep),
                      QueueLink(1, 2, 2 * TickStep)>>
    /\ nextId = [decks |-> 3, cards |-> 3, user_cards |-> 4]
    /\ pc = [p \in Procs |-> "idle"]
    /\ call = [p \in Procs |-> NoCall]
    /\ ret = [p \in Procs |-> NoRet]
    /\ trail = <<>>

\* record_review on any assignment there is, or on an id there is not.
ReviewQueue(p, callers, limit) ==
    \/ /\ ReviewsRecorded < limit
       /\ \E u \in callers, r \in DOMAIN user_cards \cup {nextId.user_cards},
             g \in ReviewRating : record_review_load(p, u, r, g)
       /\ UNCHANGED trail
    \/ record_review_commit(p) /\ UNCHANGED trail

NextQueue ==
    \/ ReviewQueue(1, {1}, MaxReviews)
    \/ GetNextCard(1, {1})
    \/ Returns(1)

SpecQueue == InitQueue /\ [][NextQueue]_vars

\* The assignments get_next_card may return to user_id: the earliest due.
HeadOfQueue(user_id) ==
    {r \in DueRows(user_id, None, now) : FirstDue(r, DueRows(user_id, None, now))}

---------------------------------------------------------------------------
(* Two learners add words, some of them twice, link cards into their decks *)
(* by prompt, and review in between, one call at a time.                   *)

LinkLists == {<<W_a>>, <<W_a, W_A>>}

NextLink ==
    \/ AddWords(1, Users, LinkLists, {Echo})
    \/ CreateCardForDeck(1, Users, {W_A, W_b}, {Echo})
    \/ RecordReview(1, Users, MaxReviews)
    \/ Returns(1)
    \/ Ticks

SpecLink == Init /\ [][NextLink]_vars

\* The assignments of the triple (user_id, deck_id, card_id).
Linked(user_id, deck_id, card_id) ==
    {r \in DOMAIN user_cards :
        /\ user_cards[r].user_id = user_id
        /\ user_cards[r].deck_id = deck_id
        /\ user_cards[r].card_id = card_id}

\* The result slot 1 has just produced for one word or prompt, if any.
LinkResults ==
    IF pc[1] \in {"aw_lookup", "aw_generate"}
    THEN IF Len(call'[1].outcomes) > Len(call[1].outcomes)
         THEN {call'[1].outcomes[Len(call'[1].outcomes)]}
         ELSE {}
    ELSE IF /\ pc[1] \in {"idle", "cc_generate"}
            /\ call'[1].op = "create_card_for_deck"
            /\ pc'[1] = "done" /\ ret'[1].kind = "return"
    THEN {ret'[1].value}
    ELSE {}

(* C12: ensure_user_card is idempotent.  Where the (user, deck, card)       *)
(* triple has an assignment, asking again yields that assignment with       *)
(* created = false and the table as it was; a step of add_words or          *)
(* create_card_for_deck leaves every existing assignment's interval, count, *)
(* rating and due date alone, reports linked_to_user = false and the old id *)
(* where the triple existed and inserts one fresh row where it did not; no  *)
(* two assignments ever share a triple.                                     *)
C12_LinkIdempotent ==
    [][/\ \A r \in DOMAIN user_cards :
             /\ Linked(user_cards[r].user_id, user_cards[r].deck_id,
                       user_cards[r].card_id) = {r}
             /\ ensure_user_card(user_cards, nextId.user_cards, 1,
                                 user_cards[r].user_id, user_cards[r].deck_id,
                                 user_cards[r].card_id)
                   = [user_cards |-> user_cards, id |-> r, created |-> FALSE,
                      next |-> nextId.user_cards]
       /\ call'[1].op \in {"add_words", "create_card_for_deck"} =>
             /\ \A r \in DOMAIN user_cards :
                   /\ r \in DOMAIN user_cards'
                   /\ [user_cards'[r] EXCEPT !.tx = 0] = [user_cards[r] EXCEPT !.tx = 0]
             /\ \A o \in LinkResults :
                   o.error = NoError =>
                      LET before == Linked(call'[1].user_id, call'[1].deck_id, o.card)
                      IN  IF before # {}
                          THEN /\ ~o.linked_to_user
                               /\ before = {o.user_card_id}
                               /\ DOMAIN user_cards' = DOMAIN user_cards
                          ELSE /\ o.linked_to_user
                               /\ DOMAIN user_cards' = DOMAIN user_cards \cup {o.user_card_id}
                               /\ o.user_card_id \notin DOMAIN user_cards
                               /\ user_cards'[o.user_card_id].next_review_at = now
                               /\ user_cards'[o.user_card_id].review_count = 0
                               /\ user_cards'[o.user_card_id].interval_minutes = 0
                               /\ user_cards'[o.user_card_id].last_rating = NoRating]_vars

\* A word was added, its assignment reviewed, and later the word was added
\* again: the assignment is reported as already linked and keeps its schedule.
C12_Witness ==
    /\ pc[1] = "done" /\ call[1].op = "add_words" /\ ret[1].kind = "return"
    /\ now = TickStep
    /\ ~ret[1].value[1].linked_to_user
    /\ ret[1].value[1].reused_existing_card
    /\ LET row == user_cards[ret[1].value[1].user_card_id]
       IN  /\ row.review_count = 1
           /\ row.last_rating = EASY
           /\ row.last_reviewed_at = 0
           /\ row.next_review_at = base_easy

---------------------------------------------------------------------------
(* Two request slots run add_words and create_card_for_deck at the same    *)
(* time with a generator that echoes the word: the only INSERT into cards  *)
(* that can be rejected is one that lost the race for its word.            *)

RaceLists == {<<W_a>>, <<W_A, W_b>>}

NextRace ==
    \E p \in Procs :
        \/ AddWords(p, Users, RaceLists, {Echo})
        \/ CreateCardForDeck(p, Users, {W_A, W_b}, {Echo})
        \/ Returns(p)

SpecRace == Init /\ [][NextRace]_vars

\* The errors of a rejected INSERT and of the session it leaves behind.
RaceErrors == {"IntegrityError", "PendingRollbackError"}

\* The committed assignments that link user_id to the card of word.
LinksTo(user_id, word) ==
    {r \in Committed(user_cards) :
        /\ user_cards[r].user_id = user_id
        /\ user_cards[r].card_id \in Committed(cards)
        /\ cards[user_cards[r].card_id].normalized_source_text = normalize_text(word)}

(* C13: when calls of different users miss the lookup of one normalized     *)
(* word and both attempt the INSERT, the rejected INSERT is recovered       *)
(* inside the call: no word of either call is reported with an error, no    *)
(* call raises, and after both calls both users hold an assignment to the   *)
(* one card of the word.                                                    *)
C13_RaceRecovered ==
    \A p \in Procs :
        /\ call[p].op = "add_words" /\ call[p].words # <<>> =>
              \A i \in 1..Len(call[p].outcomes) :
                  call[p].outcomes[i].error \notin RaceErrors
        /\ pc[p] = "done" /\ call[p].op \in {"add_words", "create_card_for_deck"} =>
              /\ ret[p].kind = "raise" => ret[p].error \notin RaceErrors
              /\ ret[p].kind = "return" /\ call[p].op = "add_words"
                 /\ call[p].words # <<>> =>
                    \A i \in 1..Len(ret[p].value) :
                        LinksTo(call[p].user_id, ret[p].value[i].input_text) # {}
              /\ ret[p].kind = "return" /\ call[p].op = "create_card_for_deck" =>
                    LinksTo(call[p].user_id, ret[p].value.input_text) # {}

---------------------------------------------------------------------------
(* What the sessions of other calls can see: the committed rows.           *)

CommittedRows(t) == [i \in Committed(t) |-> t[i]]

CommittedDb ==
    <<CommittedRows(users), CommittedRows(decks), CommittedRows(cards),
      CommittedRows(user_cards)>>

\* The rows slot p has flushed and not committed.
Pending(p) ==
    <<{i \in DOMAIN users : users[i].tx = p}, {i \in DOMAIN decks : decks[i].tx = p},
      {i \in DOMAIN cards : cards[i].tx = p},
      {i \in DOMAIN user_cards : user_cards[i].tx = p}>>

\* Slot p's call ends in this step.
Finishes(p) == pc[p] # "done" /\ pc'[p] = "done"

---------------------------------------------------------------------------
(* C15: add_words over a non-empty list of non-blank words returns one      *)
(* result per word, in input order; a word that failed is reported in its   *)
(* own result, with its error set, no card and all three flags false, and   *)
(* does not abort the batch: the call returns, no word fails because an     *)
(* earlier one did, and the card and assignment of every word reported      *)
(* without error are committed.  Checked one call at a time, with a         *)
(* generator that may return any content or fail.                           *)
C15_PerWordResults ==
    pc[1] = "done" /\ call[1].op = "add_words" /\ call[1].words # <<>> =>
        /\ ret[1].kind = "return"
        /\ Len(ret[1].value) = Len(call[1].words)
        /\ \A i \in 1..Len(ret[1].value) :
              LET o == ret[1].value[i] IN
              /\ o.input_text = call[1].words[i]
              /\ o.error # "PendingRollbackError"
              /\ o.error # NoError =>
                    /\ ~o.created_card /\ ~o.reused_existing_card
                    /\ ~o.linked_to_user /\ o.card = None
              /\ o.error = NoError =>
                    /\ o.card \in Committed(cards)
                    /\ o.user_card_id \in Committed(user_cards)
                    /\ user_cards[o.user_card_id].card_id = o.card
                    /\ user_cards[o.user_card_id].user_id = call[1].user_id

---------------------------------------------------------------------------
(* Deck management: FlashcardService.delete_deck, update_deck and          *)
(* list_deck_cards, and the active deck of a user.  Each runs in one       *)
(* session and is committed or rolled back as a whole.                     *)

\* A user_cards table whose rows outlive their deck.
cascade_user_cards_kept(ucs, deck_id) == ucs

\* DeckRecord.user_cards with cascade "all, delete-orphan" (and the foreign
\* key user_cards.deck_id ON DELETE CASCADE): the rows of the deleted deck go.
cascade_user_cards(ucs, deck_id) ==
    Delete(ucs, {r \in DOMAIN ucs : ucs[r].deck_id = deck_id})

\* A users table whose active_deck_id is a plain column without the foreign key.
clear_active_deck_kept(us, deck_id) == us

\* users.active_deck_id, ForeignKey("decks.id", ondelete="SET NULL").
clear_active_deck(us, deck_id) ==
    [u \in DOMAIN us |->
        IF us[u].active_deck_id = deck_id
        THEN [us[u] EXCEPT !.active_deck_id = None] ELSE us[u]]

\* delete_deck looking the deck up by id alone.
delete_deck_anyowner(p, user_id, deck_id) ==
    /\ pc[p] = "idle"
    /\ pc' = [pc EXCEPT ![p] = "done"]
    /\ call' = [call EXCEPT ![p] =
                   [op |-> "delete_deck", user_id |-> user_id, deck_id |-> deck_id]]
    /\ IF deck_id \notin Visible(decks, p)
       THEN /\ ret' = [ret EXCEPT ![p] = Raised(DeckNotFound)]
            /\ UNCHANGED <<now, db>>
       ELSE /\ users' = clear_active_deck(CommitRows(upsert_user(p, user_id), p), deck_id)
            /\ decks' = Delete(decks, {deck_id})
            /\ user_cards' = cascade_user_cards(user_cards, deck_id)
            /\ ret' = [ret EXCEPT ![p] = Returned(None)]
            /\ UNCHANGED <<now, cards, nextId>>

\* FlashcardService.delete_deck, with FlashcardRepository.delete_deck.
delete_deck(p, user_id, deck_id) ==
    /\ pc[p] = "idle"
    /\ pc' = [pc EXCEPT ![p] = "done"]
    /\ call' = [call EXCEPT ![p] =
                   [op |-> "delete_deck", user_id |-> user_id, deck_id |-> deck_id]]
    /\ LET deck == get_deck(p, user_id, deck_id) IN
       IF deck = None
       THEN \* the session is closed without commit
            /\ ret' = [ret EXCEPT ![p] = Raised(DeckNotFound)]
            /\ UNCHANGED <<now, db>>
       ELSE /\ users' = clear_active_deck(CommitRows(upsert_user(p, user_id), p), deck)
            /\ decks' = Delete(decks, {deck})
            /\ user_cards' = cascade_user_cards(user_cards, deck)
            /\ ret' = [ret EXCEPT ![p] = Returned(None)]
            /\ UNCHANGED <<now, cards, nextId>>

\* The row of FlashcardRepository.list_decks for one deck, as a DeckSummary.
DeckSummary(ds, owner_id, deck) ==
    LET linked == {r \in DOMAIN user_cards :
                      user_cards[r].deck_id = deck /\ user_cards[r].user_id = owner_id}
    IN  [deck_id |-> deck, slug |-> ds[deck].slug, name |-> ds[deck].name,
         card_count |-> Cardinality(linked),
         due_count |-> Cardinality({r \in linked : user_cards[r].next_review_at <= now})]

\* FlashcardService.update_deck, with FlashcardRepository.update_deck: the
\* name is replaced when one is given that is not blank.
update_deck(p, user_id, deck_id, name) ==
    /\ pc[p] = "idle"
    /\ pc' = [pc EXCEPT ![p] = "done"]
    /\ call' = [call EXCEPT ![p] =
                   [op |-> "update_deck", user_id |-> user_id, deck_id |-> deck_id,
                    name |-> name]]
    /\ LET deck == get_deck(p, user_id, deck_id) IN
       IF deck = None
       THEN /\ ret' = [ret EXCEPT ![p] = Raised(DeckNotFound)]
            /\ UNCHANGED <<now, db>>
       ELSE LET updated == IF name # <<>> /\ strip(name) # <<>>
                           THEN [decks EXCEPT ![deck].name = strip(name)]
                           ELSE decks
            IN  /\ users' = CommitRows(upsert_user(p, user_id), p)
                /\ decks' = updated
                /\ ret' = [ret EXCEPT ![p] = Returned(DeckSummary(updated, user_id, deck))]
                /\ UNCHANGED <<now, cards, user_cards, nextId>>

\* The orders in which a SELECT ... ORDER BY next_review_at, created_at may
\* return rows: rows equal under the ordering come in either order.
SortedSeqs(rows) ==
    {s \in [1..Cardinality(rows) -> rows] :
        /\ \A i, j \in 1..Cardinality(rows) : s[i] = s[j] => i = j
        /\ \A i, j \in 1..Cardinality(rows) : i < j => OrderedBefore(s[i], s[j])}

\* FlashcardRepository.list_deck_cards: the rows the statement matches.
deck_card_rows(p, owner_id, deck_id) ==
    {r \in Visible(user_cards, p) :
        user_cards[r].user_id = owner_id /\ user_cards[r].deck_id = deck_id}

\* FlashcardService.list_deck_cards
list_deck_cards(p, user_id, deck_id) ==
    /\ pc[p] = "idle"
    /\ pc' = [pc EXCEPT ![p] = "done"]
    /\ call' = [call EXCEPT ![p] =
                   [op |-> "list_deck_cards", user_id |-> user_id, deck_id |-> deck_id]]
    /\ LET deck == get_deck(p, user_id, deck_id) IN
       IF deck = None
       THEN /\ ret' = [ret EXCEPT ![p] = Raised(DeckNotFound)]
            /\ UNCHANGED <<now, db>>
       ELSE /\ \E records \in SortedSeqs(deck_card_rows(p, user_id, deck)) :
                  ret' = [ret EXCEPT ![p] = Returned(records)]
            /\ users' = CommitRows(upsert_user(p, user_id), p)
            /\ UNCHANGED <<now, decks, cards, user_cards, nextId>>

\* UserRepository.set_active_deck: the users table after it.  The record
\* exists, the service having upserted it in the same session.
set_active_deck(us, user_id, deck_id) ==
    [us EXCEPT ![user_id].active_deck_id = deck_id]

\* UserRepository.get_active_deck_id
get_active_deck_id(p, user_id) ==
    IF user_id \in Visible(users, p) THEN users[user_id].active_deck_id ELSE None

\* FlashcardService.set_active_deck: the deck must be one of the caller's,
\* or the call raises the not-found error its callers handle.
set_active_deck_call(p, user_id, deck_id) ==
    /\ pc[p] = "idle"
    /\ pc' = [pc EXCEPT ![p] = "done"]
    /\ call' = [call EXCEPT ![p] =
                   [op |-> "set_active_deck", user_id |-> user_id,
                    deck_id |-> deck_id]]
    /\ LET deck == get_deck(p, user_id, deck_id) IN
       IF deck = None
       THEN /\ ret' = [ret EXCEPT ![p] = Raised(DeckNotFound)]
            /\ UNCHANGED <<now, db>>
       ELSE /\ users' = CommitRows(set_active_deck(upsert_user(p, user_id),
                                                   user_id, deck), p)
            /\ ret' = [ret EXCEPT ![p] = Returned(None)]
            /\ UNCHANGED <<now, decks, cards, user_cards, nextId>>

\* The None that get_active_deck returns when the user has no active deck.
NoDeck == [deck_id |-> None]

\* FlashcardService.get_active_deck: the summary of the user's active deck.
get_active_deck(p, user_id) ==
    /\ pc[p] = "idle"
    /\ pc' = [pc EXCEPT ![p] = "done"]
    /\ call' = [call EXCEPT ![p] = [op |-> "get_active_deck", user_id |-> user_id]]
    /\ LET active == get_active_deck_id(p, user_id)
           deck   == IF active = None THEN None ELSE get_deck(p, user_id, active)
       IN  ret' = [ret EXCEPT ![p] =
                      IF deck = None THEN Returned(NoDeck)
                      ELSE Returned(DeckSummary(decks, user_id, deck))]
    /\ UNCHANGED <<now, db>>

DeleteDeck(p, callers) ==
    \E u \in callers, d \in DeckIds : delete_deck(p, u, d) /\ UNCHANGED trail

DeckTitles == {<<"N">>, <<" ">>, <<>>}

UpdateDeck(p, callers) ==
    \E u \in callers, d \in DeckIds, n \in DeckTitles :
        update_deck(p, u, d, n) /\ UNCHANGED trail

ListDeckCards(p, callers) ==
    \E u \in callers, d \in DeckIds : list_deck_cards(p, u, d) /\ UNCHANGED trail

SetActiveDeck(p, callers) ==
    \E u \in callers, d \in DeckIds : set_active_deck_call(p, u, d) /\ UNCHANGED trail

GetActiveDeck(p, callers) ==
    \E u \in callers : get_active_deck(p, u) /\ UNCHANGED trail

---------------------------------------------------------------------------
(* Two learners create, rename, list and delete decks, link a card into    *)
(* them and choose their active deck, one call at a time.                  *)

NextDecks ==
    \/ CreateDeck(1, Users)
    \/ CreateCardForDeck(1, Users, {W_A}, {Echo})
    \/ DeleteDeck(1, Users)
    \/ UpdateDeck(1, Users)
    \/ ListDeckCards(1, Users)
    \/ SetActiveDeck(1, Users)
    \/ GetActiveDeck(1, Users)
    \/ Returns(1)

SpecDecks == Init /\ [][NextDecks]_vars

\* The k-th slug tried for a name whose slug is s: s, s-2, s-3, ...
Candidate(s, k) == IF k = 1 THEN s ELSE s \o <<"-", ToString(k)>>

\* The slugs of the decks of owner_id, the deck new aside.
SlugsOf(owner_id, new) ==
    {decks[d].slug : d \in {e \in DOMAIN decks \ {new} : decks[e].owner_id = owner_id}}

(* C16: create_deck gives the new deck the first of s, s-2, s-3, ... that   *)
(* no other deck of the owner has, s being the slug of the name; every deck *)
(* is retrievable by its owner under its id; and no two decks of one owner  *)
(* share a slug.                                                            *)
C16_UniqueSlugs ==
    /\ \A d, e \in DOMAIN decks :
          decks[d].owner_id = decks[e].owner_id /\ decks[d].slug = decks[e].slug
          => d = e
    /\ \A d \in DOMAIN decks : get_deck(1, decks[d].owner_id, d) = d
    /\ pc[1] = "done" /\ call[1].op = "create_deck" /\ ret[1].kind = "return" =>
          LET new  == ret[1].value.deck_id
              s    == generate_slug(strip(call[1].name))
              used == SlugsOf(call[1].user_id, new)
          IN  /\ new \in DOMAIN decks
              /\ decks[new].owner_id = call[1].user_id
              /\ decks[new].slug = ret[1].value.slug
              /\ \E k \in 1..(Cardinality(used) + 1) :
                    /\ ret[1].value.slug = Candidate(s, k)
                    /\ Candidate(s, k) \notin used
                    /\ \A j \in 1..(k - 1) : Candidate(s, j) \in used

\* A second deck of the same name was created for an owner: the first has
\* the slug of the name, the second the suffix 2.
C16_Witness ==
    /\ pc[1] = "done" /\ call[1].op = "create_deck" /\ ret[1].kind = "return"
    /\ call[1].name = <<"M", " ", "p">>
    /\ ret[1].value.slug = <<"m", "-", "p", "-", "2">>
    /\ \E d \in DOMAIN decks :
          /\ d # ret[1].value.deck_id
          /\ decks[d].owner_id = call[1].user_id
          /\ decks[d].slug = <<"m", "-", "p">>
          /\ decks[d].name = decks[ret[1].value.deck_id].name

\* Slot 1 calls delete_deck and the call succeeds.
DeckDeleted ==
    /\ pc[1] = "idle" /\ pc'[1] = "done"
    /\ call'[1].op = "delete_deck" /\ ret'[1] = Returned(None)

(* C17: a successful delete_deck(owner, deck) removes the deck, which was   *)
(* the caller's, and every assignment that referenced it, and nothing else: *)
(* the cards, the other decks and the assignments in other decks are as     *)
(* they were.  Every assignment references a deck that exists.              *)
C17_DeleteCascades ==
    [][/\ \A r \in DOMAIN user_cards : user_cards[r].deck_id \in DOMAIN decks
       /\ DeckDeleted =>
             LET d == call'[1].deck_id IN
             /\ d \in DOMAIN decks /\ decks[d].owner_id = call'[1].user_id
             /\ DOMAIN decks' = DOMAIN decks \ {d}
             /\ \A e \in DOMAIN decks' : decks'[e] = decks[e]
             /\ DOMAIN user_cards' =
                   {r \in DOMAIN user_cards : user_cards[r].deck_id # d}
             /\ \A r \in DOMAIN user_cards' : user_cards'[r] = user_cards[r]
             /\ cards' = cards]_vars

\* A card was linked into two decks and one of them was deleted: the card
\* and its assignment in the other deck are still there.
C17_Witness ==
    /\ pc[1] = "done" /\ call[1].op = "delete_deck" /\ ret[1] = Returned(None)
    /\ call[1].deck_id \notin DOMAIN decks
    /\ nextId.user_cards = 3
    /\ \E r \in DOMAIN user_cards :
          /\ DOMAIN user_cards = {r}
          /\ user_cards[r].deck_id \in DOMAIN decks
          /\ user_cards[r].user_id = call[1].user_id
          /\ user_cards[r].card_id \in DOMAIN cards

---------------------------------------------------------------------------
(* Two learners create decks, choose their active deck, delete decks and   *)
(* ask for the active deck, one call at a time; trail records, for each    *)
(* deleted deck, the users whose active deck it was.                       *)

DeleteDeckRecorded(p, callers) ==
    \E u \in callers, d \in DeckIds :
        /\ delete_deck(p, u, d)
        /\ trail' = IF ret'[p] = Returned(None)
                    THEN Append(trail,
                                [deck_id |-> d,
                                 active_of |-> {v \in DOMAIN users :
                                                   users[v].active_deck_id = d}])
                    ELSE trail

NextActive ==
    \/ CreateDeck(1, Users)
    \/ SetActiveDeck(1, Users)
    \/ DeleteDeckRecorded(1, Users)
    \/ GetActiveDeck(1, Users)
    \/ Returns(1)

SpecActive == Init /\ [][NextActive]_vars

(* C18: when delete_deck removes the deck that is a user's active deck,     *)
(* the user's active_deck_id is null afterwards and stays null until the    *)
(* user chooses a deck again, no other user row changes, and get_active_deck *)
(* returns none for a user whose active_deck_id is null; no user's          *)
(* active_deck_id ever names a deck that does not exist.                    *)
C18_ActiveDeckCleared ==
    [][/\ \A u \in DOMAIN users : users[u].active_deck_id \in DOMAIN decks \cup {None}
       /\ DeckDeleted =>
             \A u \in DOMAIN users :
                 IF users[u].active_deck_id = call'[1].deck_id
                 THEN /\ users'[u].active_deck_id = None
                      /\ (get_active_deck_id(1, u))' = None
                 ELSE users'[u] = users[u]
       /\ \A u \in DOMAIN users :
             users[u].active_deck_id = None /\ users'[u].active_deck_id # None
             => call'[1].op = "set_active_deck" /\ call'[1].user_id = u
       /\ pc[1] = "done" /\ call[1].op = "get_active_deck" =>
             IF get_active_deck_id(1, call[1].user_id) = None
             THEN ret[1] = Returned(NoDeck)
             ELSE /\ ret[1].kind = "return"
                  /\ ret[1].value.deck_id = users[call[1].user_id].active_deck_id]_vars

\* A user deleted the active deck and then asked for the active deck: none,
\* although the user has another deck.
C18_Witness ==
    /\ pc[1] = "done" /\ call[1].op = "get_active_deck"
    /\ ret[1] = Returned(NoDeck)
    /\ Len(trail) = 1
    /\ trail[1].active_of = {call[1].user_id}
    /\ \E d \in DOMAIN decks : decks[d].owner_id = call[1].user_id

---------------------------------------------------------------------------
\* The operations on a deck that check whose it is.
DeckScopedOps == {"delete_deck", "update_deck", "list_deck_cards", "create_card_for_deck"}

\* Slot 1 starts an operation on a deck that is not the caller's: one that
\* another user owns, or one that does not exist.
ForeignDeckCall ==
    /\ pc[1] = "idle" /\ pc'[1] # "idle"
    /\ call'[1].op \in DeckScopedOps
    /\ call'[1].deck_id \in DOMAIN decks => decks[call'[1].deck_id].owner_id # call'[1].user_id

\* What an operation on a deck that does not exist raises.
MissingDeckError ==
    IF call'[1].op = "create_card_for_deck" /\ call'[1].prompt_text = <<>>
    THEN "ValueError: empty card text"
    ELSE DeckNotFound

(* C19: deck operations are scoped to the owner.  get_deck by a user who    *)
(* does not own the deck yields none, as it does for an id no deck has;     *)
(* delete_deck, update_deck, list_deck_cards and create_card_for_deck       *)
(* called for a deck of another user end at once with the error they raise  *)
(* for a deck that does not exist, and no row of any table changes.         *)
C19_OwnerScoped ==
    [][/\ \A u \in Users, d \in DOMAIN decks :
             /\ decks[d].owner_id # u => get_deck(1, u, d) = get_deck(1, u, nextId.decks)
             /\ get_deck(1, u, nextId.decks) = None
       /\ ForeignDeckCall =>
             /\ pc'[1] = "done"
             /\ ret'[1] = Raised(MissingDeckError)
             /\ db' = db]_vars

\* A user tried to delete the deck of another user, a deck with an
\* assignment in it, and was told there is no such deck.
C19_Witness ==
    /\ pc[1] = "done" /\ call[1].op = "delete_deck"
    /\ ret[1] = Raised(DeckNotFound)
    /\ call[1].deck_id \in DOMAIN decks
    /\ decks[call[1].deck_id].owner_id # call[1].user_id
    /\ \E r \in DOMAIN user_cards : user_cards[r].deck_id = call[1].deck_id
    /\ call[1].user_id \notin DOMAIN users

---------------------------------------------------------------------------
(* Learners create decks and add cards to them by prompt; a prompt may be  *)
(* the translation the generator gave to earlier cards.                    *)

W_x == <<"x">>
ResolvePrompts == {W_A, W_b, W_x}

NextResolve ==
    \/ CreateDeck(1, Users)
    \/ CreateCardForDeck(1, Users, ResolvePrompts, {Echo})
    \/ Returns(1)

SpecResolve == Init /\ [][NextResolve]_vars

\* The cards whose normalized source, or target, is the text.
BySource(text) == {c \in DOMAIN cards : cards[c].normalized_source_text = text}
ByTarget(text) == {c \in DOMAIN cards : cards[c].normalized_target_text = text}

\* Slot 1 starts create_card_for_deck with a prompt that is not blank.
ResolveStarts ==
    /\ pc[1] = "idle" /\ pc'[1] # "idle"
    /\ call'[1].op = "create_card_for_deck"
    /\ call'[1].prompt_text # <<>>

\* The call of slot 1 ended by reusing a card of the set.
ReusedFrom(found) ==
    /\ pc'[1] = "done"
    /\ ret'[1].kind = "return"
    /\ ret'[1].value.reused_existing_card
    /\ ~ret'[1].value.created_card
    /\ ret'[1].value.card \in found
    /\ cards' = cards

(* C20: create_card_for_deck resolves the prompt in a fixed order.  When    *)
(* the deck is not the caller's the call fails with not-found and nothing   *)
(* is written.  Otherwise a card whose normalized source is the normalized  *)
(* prompt is reused; if there is none, a card whose normalized target is    *)
(* the normalized prompt is reused; only if there is neither does the call  *)
(* go on to the generator, and the generator's content becomes a new card.  *)
C20_ResolveOrder ==
    [][/\ ResolveStarts =>
             LET text  == normalize_text(call'[1].prompt_text)
                 owned == /\ call'[1].deck_id \in DOMAIN decks
                          /\ decks[call'[1].deck_id].owner_id = call'[1].user_id
             IN  IF ~owned
                 THEN pc'[1] = "done" /\ ret'[1] = Raised(DeckNotFound) /\ db' = db
                 ELSE IF BySource(text) # {} THEN ReusedFrom(BySource(text))
                 ELSE IF ByTarget(text) # {} THEN ReusedFrom(ByTarget(text))
                 ELSE pc'[1] = "cc_generate" /\ cards' = cards
       /\ pc[1] = "cc_generate" /\ pc'[1] = "done" =>
             /\ BySource(normalize_text(call[1].prompt_text)) = {}
             /\ ByTarget(normalize_text(call[1].prompt_text)) = {}
             /\ ret'[1].kind = "return" =>
                   /\ ret'[1].value.created_card
                   /\ ret'[1].value.card \notin DOMAIN cards
                   /\ ret'[1].value.card \in DOMAIN cards']_vars

---------------------------------------------------------------------------
(* A learner creates a deck, selects it as the active deck and adds words. *)

NextSelect ==
    \/ CreateDeck(1, {1})
    \/ SetActiveDeck(1, {1})
    \/ AddWords(1, {1}, {<<W_a>>, <<W_b>>}, {Echo})
    \/ Returns(1)

SpecSelect == Init /\ [][NextSelect]_vars

\* The decks of the user that carry the default slug.
DefaultDecks(user_id) ==
    {d \in DOMAIN decks : /\ decks[d].owner_id = user_id
                          /\ decks[d].slug = DEFAULT_DECK_SLUG}

\* The deck the words of the user are to go to.
WordDecks(user_id) ==
    IF users[user_id].active_deck_id # None
    THEN {users[user_id].active_deck_id}
    ELSE DefaultDecks(user_id)

(* C21: add_words links every word it processed successfully into the      *)
(* active deck of the user when one is set, and into the user's default     *)
(* deck otherwise.                                                          *)
C21_WordsGoToActiveDeck ==
    pc[1] = "done" /\ call[1].op = "add_words" /\ ret[1].kind = "return" =>
        \A i \in DOMAIN ret[1].value :
            ret[1].value[i].error = NoError =>
                user_cards[ret[1].value[i].user_card_id].deck_id
                    \in WordDecks(call[1].user_id)

---------------------------------------------------------------------------
(* Learners add words; some lists hold no word at all.                     *)

W_empty == <<>>
BlankLists == {<<>>, <<W_empty>>, <<W_blank>>, <<W_empty, W_blank>>}

NextBlank ==
    \/ AddWords(1, Users, BlankLists \cup {<<W_a>>, <<W_blank, W_b>>}, Generations)
    \/ Returns(1)

SpecBlank == Init /\ [][NextBlank]_vars

(* C22: add_words with an empty list, or a list of empty and blank strings  *)
(* only, returns exactly one result, which carries an error, no card and    *)
(* no assignment id and has created_card, linked_to_user and                *)
(* reused_existing_card false; it raises nothing, does not reach the        *)
(* content generator and changes no row.                                    *)
C22_NoWordsNoEffect ==
    [][\A u \in Users, ws \in BlankLists :
          add_words_begin(1, u, ws) =>
              /\ pc'[1] = "done"
              /\ call'[1].gen = 0
              /\ ret'[1].kind = "return"
              /\ Len(ret'[1].value) = 1
              /\ ret'[1].value[1].error # NoError
              /\ ~ret'[1].value[1].created_card
              /\ ~ret'[1].value[1].linked_to_user
              /\ ~ret'[1].value[1].reused_existing_card
              /\ ret'[1].value[1].card = None
              /\ ret'[1].value[1].user_card_id = None
              /\ db' = db]_vars

\* add_words was given no word while cards and assignments existed.
C22_Witness ==
    /\ pc[1] = "done" /\ call[1].op = "add_words" /\ call[1].words = <<>>
    /\ ret[1].kind = "return" /\ Len(ret[1].value) = 1
    /\ cards # <<>> /\ user_cards # <<>>

---------------------------------------------------------------------------
(* Two sessions of one learner review the queue at the same time; trail    *)
(* records the assignment of every review that was committed.              *)

ReviewTallied(p, callers, limit) ==
    \/ /\ Len(trail) + Cardinality({q \in Procs : pc[q] = "rr_commit"}) < limit
       /\ \E u \in callers, r \in DOMAIN user_cards, g \in ReviewRating :
             record_review_load(p, u, r, g)
       /\ UNCHANGED trail
    \/ /\ record_review_commit(p)
       /\ trail' = IF ret'[p] = Returned(None)
                   THEN Append(trail, call[p].user_card_id)
                   ELSE trail

NextTally ==
    \E p \in Procs :
        \/ ReviewTallied(p, {1}, MaxReviews)
        \/ Returns(p)

SpecTally == InitQueue /\ [][NextTally]_vars

\* The record_review calls on the assignment that completed successfully.
CompletedReviews(r) == Cardinality({i \in 1..Len(trail) : trail[i] = r})

(* C23: in every reachable state the review_count of every assignment is    *)
(* the number of record_review calls on it that completed successfully,     *)
(* also when two calls on the same assignment both load it before either    *)
(* commits.                                                                 *)
C23_CountsEveryReview ==
    \A r \in DOMAIN user_cards : user_cards[r].review_count = CompletedReviews(r)

---------------------------------------------------------------------------
(* FlashcardService.list_user_decks                                        *)

\* One row of list_decks: the deck with the two aggregates over the joined
\* assignments (UserCardRecord.deck_id = DeckRecord.id and
\* UserCardRecord.user_id = owner_id).
ListedDeck(p, owner_id, deck, reference) ==
    LET joined == {r \in Visible(user_cards, p) :
                      /\ user_cards[r].deck_id = deck
                      /\ user_cards[r].user_id = owner_id}
    IN  [deck_id    |-> deck,
         card_count |-> Cardinality(joined),
         due_count  |-> Cardinality({r \in joined :
                                        user_cards[r].next_review_at <= reference})]

\* The orders in which ORDER BY DeckRecord.created_at ASC may return the decks.
DeckOrders(rows) ==
    {s \in [1..Cardinality(rows) -> rows] :
        /\ \A i, j \in 1..Cardinality(rows) : s[i] = s[j] => i = j
        /\ \A i, j \in 1..Cardinality(rows) :
              i < j => decks[s[i]].created_at <= decks[s[j]].created_at}

\* list_decks without its WHERE clause: the decks of every owner.
list_decks_anyowner(p, owner_id, as_of) ==
    LET reference == IF as_of # None THEN as_of ELSE now
    IN  {[i \in DOMAIN s |-> ListedDeck(p, owner_id, s[i], reference)] :
            s \in DeckOrders(Visible(decks, p))}

\* FlashcardRepository.list_decks: the lists the statement may return.
list_decks(p, owner_id, as_of) ==
    LET reference == IF as_of # None THEN as_of ELSE now
        rows == {d \in Visible(decks, p) : decks[d].owner_id = owner_id}
    IN  {[i \in DOMAIN s |-> ListedDeck(p, owner_id, s[i], reference)] :
            s \in DeckOrders(rows)}

\* FlashcardService.list_user_decks: the session is closed without commit.
list_user_decks(p, user_id) ==
    /\ pc[p] = "idle"
    /\ pc' = [pc EXCEPT ![p] = "done"]
    /\ call' = [call EXCEPT ![p] = [op |-> "list_user_decks", user_id |-> user_id]]
    /\ \E rows \in list_decks(p, user_id, None) :
          ret' = [ret EXCEPT ![p] = Returned(rows)]
    /\ UNCHANGED <<now, db>>

ListUserDecks(p, callers) ==
    \E u \in callers : list_user_decks(p, u) /\ UNCHANGED trail

\* A review rated "review", while fewer than limit reviews are recorded.
ReviewOnce(p, callers, limit) ==
    \/ /\ ReviewsRecorded < limit
       /\ Effort < MaxEffort
       /\ \E u \in callers, r \in UserCardIds : record_review_load(p, u, r, REVIEW)
       /\ UNCHANGED trail
    \/ record_review_commit(p) /\ UNCHANGED trail

(* Learners create decks, put cards into them, review them and list their  *)
(* decks while time passes.                                                *)
NextShelf ==
    \/ CreateDeck(1, Users)
    \/ CreateCardForDeck(1, {1}, {W_A, W_b}, {Echo})
    \/ ReviewOnce(1, {1}, 1)
    \/ ListUserDecks(1, Users)
    \/ Returns(1)
    \/ Ticks

SpecShelf == Init /\ [][NextShelf]_vars

\* The assignments in the deck, and those of them due at the time.
InDeck(deck) == {r \in DOMAIN user_cards : user_cards[r].deck_id = deck}
DueInDeck(deck, t) == {r \in InDeck(deck) : user_cards[r].next_review_at <= t}

(* C24: list_decks(owner, asOf) returns exactly the decks the owner owns,   *)
(* each once, in ascending order of creation time, each with card_count =   *)
(* the number of assignments in the deck and due_count = the number of      *)
(* those whose next_review_at <= asOf, so that 0 <= due_count <=            *)
(* card_count; no deck of another owner is listed.                          *)
C24_ListDecks ==
    \A u \in Users, t \in AsOfTimes :
        LET lists == list_decks(1, u, t)
            asOf  == IF t = None THEN now ELSE t
        IN
        /\ lists # {}
        /\ \A s \in lists :
              /\ {s[i].deck_id : i \in DOMAIN s} =
                    {d \in DOMAIN decks : decks[d].owner_id = u}
              /\ \A i, j \in DOMAIN s :
                    i < j => /\ s[i].deck_id # s[j].deck_id
                             /\ decks[s[i].deck_id].created_at
                                   <= decks[s[j].deck_id].created_at
              /\ \A i \in DOMAIN s :
                    /\ s[i].card_count = Cardinality(InDeck(s[i].deck_id))
                    /\ s[i].due_count = Cardinality(DueInDeck(s[i].deck_id, asOf))
                    /\ 0 <= s[i].due_count /\ s[i].due_count <= s[i].card_count

\* A learner listed two decks made at different times: the older first, with
\* two assignments of which one is due, and then the newer, which is empty.
C24_Witness ==
    /\ pc[1] = "done" /\ call[1].op = "list_user_decks"
    /\ ret[1].kind = "return" /\ Len(ret[1].value) = 2
    /\ decks[ret[1].value[1].deck_id].created_at
          < decks[ret[1].value[2].deck_id].created_at
    /\ ret[1].value[1].card_count = 2 /\ ret[1].value[1].due_count = 1
    /\ ret[1].value[2].card_count = 0 /\ ret[1].value[2].due_count = 0

---------------------------------------------------------------------------
(* FlashcardService.remove_card_from_deck                                  *)

CardNotInDeck == "ValueError: card not found in the deck"

\* The SELECT of FlashcardRepository.remove_user_card.
user_card_in_deck(p, owner_id, deck_id, user_card_id) ==
    scalar_one_or_none({r \in Visible(user_cards, p) :
                           /\ r = user_card_id
                           /\ user_cards[r].user_id = owner_id
                           /\ user_cards[r].deck_id = deck_id})

\* remove_user_card deleting every assignment of the learner to the card.
remove_user_card_bycard(ucs, record) ==
    Delete(ucs, {r \in DOMAIN ucs : /\ ucs[r].user_id = ucs[record].user_id
                                    /\ ucs[r].card_id = ucs[record].card_id})

\* FlashcardRepository.remove_user_card: session.delete(record) and the flush.
remove_user_card(ucs, record) == Delete(ucs, {record})

\* remove_card_from_deck that also deletes a card no assignment refers to
\* any more.
remove_card_from_deck_orphans(p, user_id, deck_id, user_card_id) ==
    /\ pc[p] = "idle"
    /\ pc' = [pc EXCEPT ![p] = "done"]
    /\ call' = [call EXCEPT ![p] =
                   [op |-> "remove_card_from_deck", user_id |-> user_id,
                    deck_id |-> deck_id, user_card_id |-> user_card_id]]
    /\ LET deck   == get_deck(p, user_id, deck_id)
           record == user_card_in_deck(p, user_id, deck_id, user_card_id)
       IN  IF deck = None
           THEN /\ ret' = [ret EXCEPT ![p] = Raised(DeckNotFound)]
                /\ UNCHANGED <<now, db>>
           ELSE IF record = None
           THEN /\ ret' = [ret EXCEPT ![p] = Raised(CardNotInDeck)]
                /\ UNCHANGED <<now, db>>
           ELSE /\ users' = CommitRows(upsert_user(p, user_id), p)
                /\ user_cards' = remove_user_card(user_cards, record)
                /\ cards' = Delete(cards, {c \in DOMAIN cards :
                                \A r \in DOMAIN user_cards' : user_cards'[r].card_id # c})
                /\ ret' = [ret EXCEPT ![p] = Returned(None)]
                /\ UNCHANGED <<now, decks, nextId>>

remove_card_from_deck(p, user_id, deck_id, user_card_id) ==
    /\ pc[p] = "idle"
    /\ pc' = [pc EXCEPT ![p] = "done"]
    /\ call' = [call EXCEPT ![p] =
                   [op |-> "remove_card_from_deck", user_id |-> user_id,
                    deck_id |-> deck_id, user_card_id |-> user_card_id]]
    /\ LET deck   == get_deck(p, user_id, deck_id)
           record == user_card_in_deck(p, user_id, deck_id, user_card_id)
       IN  IF deck = None
           THEN /\ ret' = [ret EXCEPT ![p] = Raised(DeckNotFound)]
                /\ UNCHANGED <<now, db>>
           ELSE IF record = None
           THEN /\ ret' = [ret EXCEPT ![p] = Raised(CardNotInDeck)]
                /\ UNCHANGED <<now, db>>
           ELSE /\ users' = CommitRows(upsert_user(p, user_id), p)
                /\ user_cards' = remove_user_card(user_cards, record)
                /\ ret' = [ret EXCEPT ![p] = Returned(None)]
                /\ UNCHANGED <<now, decks, cards, nextId>>

RemoveCardFromDeck(p, callers) ==
    \E u \in callers, d \in DeckIds, r \in UserCardIds :
        remove_card_from_deck(p, u, d, r) /\ UNCHANGED trail

(* Learners create decks, put cards into them and take cards out again.    *)
NextUnlink ==
    \/ CreateDeck(1, Users)
    \/ CreateCardForDeck(1, Users, {W_A, W_b}, {Echo})
    \/ RemoveCardFromDeck(1, Users)
    \/ Returns(1)

SpecUnlink == Init /\ [][NextUnlink]_vars

\* Slot 1 calls remove_card_from_deck.
RemoveCalled ==
    pc[1] = "idle" /\ pc'[1] # "idle" /\ call'[1].op = "remove_card_from_deck"

(* C25: remove_card_from_deck(user, deck, assignment) deletes that one      *)
(* assignment and nothing else: the canonical card, every other assignment  *)
(* (the same card in another deck included) and the decks are unchanged.    *)
(* When the user has no assignment with that id in that deck the call       *)
(* fails with a not-found error and changes nothing.                        *)
C25_RemoveOne ==
    [][RemoveCalled =>
          LET r == call'[1].user_card_id IN
          /\ pc'[1] = "done"
          /\ IF /\ r \in DOMAIN user_cards
                /\ user_cards[r].user_id = call'[1].user_id
                /\ user_cards[r].deck_id = call'[1].deck_id
             THEN /\ ret'[1] = Returned(None)
                  /\ DOMAIN user_cards' = DOMAIN user_cards \ {r}
                  /\ \A o \in DOMAIN user_cards' : user_cards'[o] = user_cards[o]
                  /\ cards' = cards
                  /\ decks' = decks
                  /\ users' = users
             ELSE /\ ret'[1] \in {Raised(DeckNotFound), Raised(CardNotInDeck)}
                  /\ db' = db]_vars

\* A card that was in two decks was taken out of one: the card is still
\* there and is still in the other deck.
C25_Witness ==
    /\ pc[1] = "done" /\ call[1].op = "remove_card_from_deck"
    /\ ret[1] = Returned(None)
    /\ call[1].user_card_id \notin DOMAIN user_cards
    /\ \E o \in DOMAIN user_cards :
          /\ user_cards[o].user_id = call[1].user_id
          /\ user_cards[o].deck_id # call[1].deck_id
          /\ user_cards[o].card_id \in DOMAIN cards
          /\ Cardinality(DOMAIN cards) = 1

---------------------------------------------------------------------------
(* A learner uses every operation that writes: words are added, decks are  *)
(* created, renamed and deleted, cards are put into decks, reviewed and    *)
(* taken out again.                                                        *)

NextKeep ==
    \/ AddWords(1, {1}, {<<W_a>>}, {Echo, GenFailed})
    \/ CreateDeck(1, {1})
    \/ CreateCardForDeck(1, {1}, {W_b}, {Echo})
    \/ ReviewOnce(1, {1}, 1)
    \/ RemoveCardFromDeck(1, {1})
    \/ UpdateDeck(1, {1})
    \/ DeleteDeck(1, {1})
    \/ Returns(1)

SpecKeep == Init /\ [][NextKeep]_vars

(* C26: canonical cards are append-only.  A card that exists (its row is    *)
(* committed) exists after every step of add_words, create_card_for_deck,   *)
(* record_review, remove_card_from_deck, update_deck and delete_deck, with  *)
(* the same content, also when no assignment refers to it any more.         *)
C26_CardsAppendOnly ==
    [][\A c \in DOMAIN cards :
          cards[c].tx = 0 => c \in DOMAIN cards' /\ cards'[c] = cards[c]]_vars

\* Both cards have lost their last assignment, one by remove_card_from_deck
\* and one by delete_deck, and are still there.
C26_Witness ==
    /\ Cardinality(DOMAIN cards) = 2
    /\ \A c \in DOMAIN cards : cards[c].tx = 0
    /\ user_cards = <<>>
    /\ nextId.user_cards = 3
    /\ \E d \in 1..(nextId.decks - 1) : d \notin DOMAIN decks
    /\ pc[1] = "done" /\ call[1].op = "remove_card_from_deck" /\ ret[1] = Returned(None)

---------------------------------------------------------------------------
(* FlashcardService.generate_cards_for_deck                                *)

\* words[:count]
Take(words, count) == SubSeq(words, 1, IF count < Len(words) THEN count ELSE Len(words))

\* The loop of generate_cards_for_deck moves to its next word, or returns
\* the results.
BatchAdvance(p, results, gen) ==
    /\ call' = [call EXCEPT ![p].results = results, ![p].idx = @ + 1, ![p].gen = gen]
    /\ IF call[p].idx + 1 > Len(call[p].words)
       THEN /\ pc' = [pc EXCEPT ![p] = "done"]
            /\ ret' = [ret EXCEPT ![p] = Returned(results)]
       ELSE /\ pc' = [pc EXCEPT ![p] = "gc_lookup"]
            /\ UNCHANGED ret

\* generate_cards_for_deck up to the loop: the prompt, the reply of the
\* language model split into lines, and the limit to count words.
generate_cards_for_deck_begin(p, user_id, deck_id, prompt, count, reply) ==
    /\ pc[p] = "idle"
    /\ UserFree(p, user_id)
    /\ LET cleaned_prompt == strip(prompt)
           words   == Take(CleanWords(reply), count)
           started == [op |-> "generate_cards_for_deck", user_id |-> user_id,
                       deck_id |-> deck_id, words |-> words, idx |-> 1,
                       results |-> <<>>, gen |-> 0]
       IN
       /\ call' = [call EXCEPT ![p] = started]
       /\ IF cleaned_prompt = <<>>
          THEN /\ ret' = [ret EXCEPT ![p] = Raised("ValueError: empty prompt")]
               /\ pc' = [pc EXCEPT ![p] = "done"]
          ELSE IF words = <<>>
          THEN /\ ret' = [ret EXCEPT ![p] = Raised("ValueError: no words generated")]
               /\ pc' = [pc EXCEPT ![p] = "done"]
          ELSE /\ HasRoom(p, Len(words), Len(words))
               /\ pc' = [pc EXCEPT ![p] = "gc_lookup"]
               /\ UNCHANGED ret
       /\ UNCHANGED <<now, db>>

\* One word of the loop: create_card_for_deck up to the generator.  A call
\* that raises is skipped: `except Exception: continue`.
generate_cards_for_deck_lookup(p) ==
    /\ pc[p] = "gc_lookup"
    /\ LET c       == call[p]
           cleaned == strip(c.words[c.idx])
           deck    == get_deck(p, c.user_id, c.deck_id)
           normalized_prompt == normalize_text(cleaned)
           by_source == get_card_by_normalized(cards, p, normalized_prompt)
           by_target == IF by_source = None
                        THEN get_card_by_normalized_target(cards, p, normalized_prompt)
                        ELSE by_source
       IN
       IF cleaned = <<>> \/ deck = None \/ by_source = Multiple \/ by_target = Multiple
       THEN \* the session is closed without commit
            /\ BatchAdvance(p, c.results, c.gen)
            /\ UNCHANGED <<now, db>>
       ELSE IF by_target = None
       THEN /\ users' = upsert_user(p, c.user_id)
            /\ pc' = [pc EXCEPT ![p] = "gc_generate"]
            /\ UNCHANGED <<now, decks, cards, user_cards, nextId, call, ret>>
       ELSE LET link == ensure_user_card(user_cards, nextId.user_cards, p,
                                         c.user_id, deck, by_target)
            IN  /\ users' = CommitRows(upsert_user(p, c.user_id), p)
                /\ user_cards' = CommitRows(link.user_cards, p)
                /\ nextId' = [nextId EXCEPT !.user_cards = link.next]
                /\ BatchAdvance(p, Append(c.results,
                                          CreationResult(cleaned, by_target, TRUE, link)),
                                c.gen)
                /\ UNCHANGED <<now, decks, cards>>

\* One word of the loop after both lookups missed: generate_flashcard,
\* create_card, ensure_user_card and the commit.
generate_cards_for_deck_generate(p, generated) ==
    /\ pc[p] = "gc_generate"
    /\ LET c == call[p] IN
       IF generated.failed
       THEN /\ BatchAdvance(p, c.results, c.gen + 1)
            /\ users' = RollbackRows(users, p)
            /\ UNCHANGED <<now, decks, cards, user_cards, nextId>>
       ELSE LET source_text == IF generated.source_text # <<>>
                               THEN generated.source_text ELSE c.words[c.idx]
                row == create_card(p, source_text, generated.target_text)
            IN
            IF UniqueViolation(p, row.normalized_source_text)
            THEN /\ BatchAdvance(p, c.results, c.gen + 1)
                 /\ users' = RollbackRows(users, p)
                 /\ UNCHANGED <<now, decks, cards, user_cards, nextId>>
            ELSE LET card == nextId.cards
                     link == ensure_user_card(user_cards, nextId.user_cards, p,
                                              c.user_id, c.deck_id, card)
                 IN  /\ users' = CommitRows(users, p)
                     /\ cards' = Insert(cards, card, [row EXCEPT !.tx = 0])
                     /\ user_cards' = CommitRows(link.user_cards, p)
                     /\ nextId' = [nextId EXCEPT !.cards = card + 1,
                                                 !.user_cards = link.next]
                     /\ BatchAdvance(p, Append(c.results,
                                               CreationResult(c.words[c.idx], card,
                                                              FALSE, link)),
                                     c.gen + 1)
                     /\ UNCHANGED <<now, decks>>

\* The topics asked for, the numbers of words and the replies of the model.
BatchPrompts == {<<"N">>, <<" ">>}
BatchCounts  == {1, 2}
BatchReplies == {<<>>, <<W_A>>, <<W_a, W_blank, W_b>>}

GenerateCardsForDeck(p, callers, generations) ==
    \/ \E u \in callers, d \in DeckIds, t \in BatchPrompts, n \in BatchCounts,
          reply \in BatchReplies :
          /\ Effort < MaxEffort
          /\ generate_cards_for_deck_begin(p, u, d, t, n, reply)
          /\ UNCHANGED trail
    \/ generate_cards_for_deck_lookup(p) /\ UNCHANGED trail
    \/ \E g \in generations : generate_cards_for_deck_generate(p, g) /\ UNCHANGED trail

(* Learners create decks and have them filled with generated cards.        *)
NextBatch ==
    \/ CreateDeck(1, Users)
    \/ GenerateCardsForDeck(1, Users, {Echo, GenFailed})
    \/ Returns(1)

SpecBatch == Init /\ [][NextBatch]_vars

(* C27: generate_cards_for_deck returns one entry for every generated word: *)
(* the creation result of the word, or an error entry when the creation of  *)
(* its card failed, so the list is never shorter than the words processed.  *)
C27_EntryPerWord ==
    /\ pc[1] = "done"
    /\ call[1].op = "generate_cards_for_deck"
    /\ ret[1].kind = "return"
    => /\ Len(ret[1].value) = Len(call[1].words)
       /\ \A i \in DOMAIN ret[1].value :
             ret[1].value[i].input_text = call[1].words[i]

---------------------------------------------------------------------------
(* C28: several cards may share a normalized target.  In every state where  *)
(* they do, create_card_for_deck for a deck of the caller, with a prompt    *)
(* that is the normalized target of several cards and the normalized source *)
(* of none, completes successfully: it reuses one of those cards, creates   *)
(* no card and does not reach the generator.                                *)
C28_SharedTargetReused ==
    [][/\ ResolveStarts
       /\ call'[1].deck_id \in DOMAIN decks
       /\ decks[call'[1].deck_id].owner_id = call'[1].user_id
       /\ BySource(normalize_text(call'[1].prompt_text)) = {}
       /\ Cardinality(ByTarget(normalize_text(call'[1].prompt_text))) > 1
       => /\ ReusedFrom(ByTarget(normalize_text(call'[1].prompt_text)))
          /\ call'[1].gen = 0
          /\ nextId'.cards = nextId.cards]_vars

---------------------------------------------------------------------------
(* C29: in every reachable state every assignment is in a deck owned by the *)
(* user of the assignment: add_words and create_card_for_deck link a card   *)
(* only into a deck of the calling user.                                    *)
C29_AssignmentInOwnDeck ==
    \A r \in DOMAIN user_cards :
        /\ user_cards[r].deck_id \in DOMAIN decks
        /\ decks[user_cards[r].deck_id].owner_id = user_cards[r].user_id

\* Both learners have an assignment, each in a deck of their own, and a
\* learner who asked for a card in the other's deck was refused.
C29_Witness ==
    /\ \A u \in Users : \E r \in DOMAIN user_cards :
          user_cards[r].user_id = u /\ user_cards[r].tx = 0
    /\ \E p \in Procs :
          /\ pc[p] = "done" /\ call[p].op = "create_card_for_deck"
          /\ ret[p] = Raised(DeckNotFound)
          /\ call[p].deck_id \in DOMAIN decks
          /\ decks[call[p].deck_id].owner_id # call[p].user_id

---------------------------------------------------------------------------
(* A learner with two assignments in the default deck, the first of them   *)
(* reviewed once (rated again) one clock step ago; two sessions of the     *)
(* learner then record reviews at the same time.                           *)

InitReviewed ==
    /\ now = TickStep
    /\ users = Insert(<<>>, 1, [active_deck_id |-> None, tx |-> 0])
    /\ decks = <<[owner_id |-> 1, slug |-> casefold(strip(DEFAULT_DECK_SLUG)),
                  name |-> DEFAULT_DECK_NAME, created_at |-> 0, tx |-> 0]>>
    /\ cards = <<QueueCard(W_a), QueueCard(W_b)>>
    /\ user_cards = <<schedule_review(QueueLink(1, 1, 0), AGAIN,
                                      calculate_next_interval(0, 0, AGAIN), 0),
                      QueueLink(1, 2, 0)>>
    /\ nextId = [decks |-> 2, cards |-> 3, user_cards |-> 3]
    /\ pc = [p \in Procs |-> "idle"]
    /\ call = [p \in Procs |-> NoCall]
    /\ ret = [p \in Procs |-> NoRet]
    /\ trail = <<>>

SpecReviewed == InitReviewed /\ [][NextTally]_vars

(* C30: in every reachable state, for every assignment, review_count = 0    *)
(* exactly when last_rating is null, exactly when last_reviewed_at is null  *)
(* and exactly when interval_minutes = 0; an assignment never reviewed has  *)
(* the next_review_at it was created with; a reviewed one has               *)
(* interval_minutes >= 10 and next_review_at = last_reviewed_at +           *)
(* interval_minutes.                                                        *)
C30_ScheduleConsistent ==
    \A r \in DOMAIN user_cards :
        LET record == user_cards[r] IN
        /\ (record.review_count = 0) <=> (record.last_rating = NoRating)
        /\ (record.review_count = 0) <=> (record.last_reviewed_at = None)
        /\ (record.review_count = 0) <=> (record.interval_minutes = 0)
        /\ record.review_count = 0 => record.next_review_at = record.created_at
        /\ record.review_count > 0 =>
              /\ record.interval_minutes >= 10
              /\ record.next_review_at =
                    record.last_reviewed_at + record.interval_minutes

=============================================================================
